---- MODULE Spec2Model ----
(***************************************************************************)
(* Client conduct auditor: the batch classification pipeline of            *)
(* src/behavior_classifier.py as driven by main() of src/auditor.py.       *)
(*                                                                         *)
(* Text is modelled as a sequence of one-character strings, so that the    *)
(* regular expressions of the source are computed character by character.  *)
(***************************************************************************)
EXTENDS Integers, Sequences, FiniteSets, TLC

VARIABLES
    cases,              \* batch_analyze's argument: the list of case dicts
    progress_callback,  \* TRUE when main passes progress_indicator (not --verbose)
    pc,                 \* position of the program
    i,                  \* enumerate(cases, 1) index of the current case
    results,            \* batch_analyze's local list of results
    progress_calls,     \* log of the (current, total) pairs the callback received
    oracle_calls,       \* log of the case indices for which messages.create was issued
    outcomes,           \* log of what the oracle did for each issued call
    analysis_results,   \* main's variable: <<>> until batch_analyze returns, then <<list>>
    report,             \* what generate_spreadsheet received: <<>> or <<list>>
    exit_code,          \* <<>> while running, <<0>> normal end, <<1>> sys.exit(1)
    response_text,      \* the reply text handed to _parse_analysis_response
    parsed,             \* <<>> or <<result of _parse_analysis_response>>
    date_str,           \* the token handed to PDFExtractor._parse_date
    parsed_date,        \* <<>> or <<outcome of _parse_date>>
    raw_text,           \* PDFExtractor.raw_text
    timeline_events,    \* PDFExtractor.timeline_events
    limit,              \* the limit handed to get_communication_snippets
    snippets,           \* <<>> or <<list get_communication_snippets returned>>
    rule_text,          \* the text handed to a SOPRuleEngine check
    rule_result,        \* <<>> or <<outcome of the SOPRuleEngine check>>, or the log of calls
    timeline_summary,   \* the timeline summary _build_analysis_prompt puts in the prompt
    pdf_files           \* extract_from_folder's list of the folder's PDF files

\* the variables of the classifier and of main
classifier_vars == <<cases, progress_callback, i, results, progress_calls, oracle_calls,
                     outcomes, analysis_results, report, exit_code, response_text, parsed>>

\* the variables of the extractor, of the rule engine and of the prompt builder
extractor_vars == <<date_str, parsed_date, raw_text, timeline_events, limit, snippets,
                    rule_text, rule_result, timeline_summary, pdf_files>>

vars == <<pc, classifier_vars, extractor_vars>>

----------------------------------------------------------------------------
(* Bounds of the model *)

\* longest batch explored
MaxCases == 2
\* longest reply, in chunks of ReplyChunks, explored for the parser
MaxChunks == 3
\* longest document text, in chunks of TextChunks, explored for the extractor
MaxLines == 3
\* longest timeline explored for get_communication_snippets
MaxEvents == 3
\* largest limit passed to get_communication_snippets
MaxLimit == 3
\* longest text, in chunks of RuleChunks, handed to the rule engine
MaxPhrases == 2
\* longest timeline of a case handed to _build_analysis_prompt
MaxTimeline == 16
\* longest body of a match handed to the loop body of _extract_timeline_events
MaxBody == 510

----------------------------------------------------------------------------
(* Characters and the str methods the source uses                              *)
(* A text is a tuple of characters. A character of Latin-1 stands for itself;   *)
(* a character beyond Latin-1 is written by its code point, as in "U+212A".     *)
(* The tables are those of Python 3.11 (Unicode 14).                            *)

UpperLetters == <<"A","B","C","D","E","F","G","H","I","J","K","L","M","N","O","P","Q","R","S","T","U","V","W","X","Y","Z">>

LowerLetters == <<"a","b","c","d","e","f","g","h","i","j","k","l","m","n","o","p","q","r","s","t","u","v","w","x","y","z">>

Digits == <<"0","1","2","3","4","5","6","7","8","9">>

Range(s) == {s[k] : k \in 1..Len(s)}

\* the decimal digits of Unicode (category Nd): DecimalDigits[v + 1] holds the
\* characters c with int(c) = v
DecimalDigits == <<
    {"0", "U+0660", "U+06F0", "U+07C0", "U+0966", "U+09E6", "U+0A66", "U+0AE6",
     "U+0B66", "U+0BE6", "U+0C66", "U+0CE6", "U+0D66", "U+0DE6", "U+0E50", "U+0ED0",
     "U+0F20", "U+1040", "U+1090", "U+17E0", "U+1810", "U+1946", "U+19D0", "U+1A80",
     "U+1A90", "U+1B50", "U+1BB0", "U+1C40", "U+1C50", "U+A620", "U+A8D0", "U+A900",
     "U+A9D0", "U+A9F0", "U+AA50", "U+ABF0", "U+FF10", "U+104A0", "U+10D30", "U+11066",
     "U+110F0", "U+11136", "U+111D0", "U+112F0", "U+11450", "U+114D0", "U+11650",
     "U+116C0", "U+11730", "U+118E0", "U+11950", "U+11C50", "U+11D50", "U+11DA0",
     "U+16A60", "U+16AC0", "U+16B50", "U+1D7CE", "U+1D7D8", "U+1D7E2", "U+1D7EC",
     "U+1D7F6", "U+1E140", "U+1E2F0", "U+1E950", "U+1FBF0"},
    {"1", "U+0661", "U+06F1", "U+07C1", "U+0967", "U+09E7", "U+0A67", "U+0AE7",
     "U+0B67", "U+0BE7", "U+0C67", "U+0CE7", "U+0D67", "U+0DE7", "U+0E51", "U+0ED1",
     "U+0F21", "U+1041", "U+1091", "U+17E1", "U+1811", "U+1947", "U+19D1", "U+1A81",
     "U+1A91", "U+1B51", "U+1BB1", "U+1C41", "U+1C51", "U+A621", "U+A8D1", "U+A901",
     "U+A9D1", "U+A9F1", "U+AA51", "U+ABF1", "U+FF11", "U+104A1", "U+10D31", "U+11067",
     "U+110F1", "U+11137", "U+111D1", "U+112F1", "U+11451", "U+114D1", "U+11651",
     "U+116C1", "U+11731", "U+118E1", "U+11951", "U+11C51", "U+11D51", "U+11DA1",
     "U+16A61", "U+16AC1", "U+16B51", "U+1D7CF", "U+1D7D9", "U+1D7E3", "U+1D7ED",
     "U+1D7F7", "U+1E141", "U+1E2F1", "U+1E951", "U+1FBF1"},
    {"2", "U+0662", "U+06F2", "U+07C2", "U+0968", "U+09E8", "U+0A68", "U+0AE8",
     "U+0B68", "U+0BE8", "U+0C68", "U+0CE8", "U+0D68", "U+0DE8", "U+0E52", "U+0ED2",
     "U+0F22", "U+1042", "U+1092", "U+17E2", "U+1812", "U+1948", "U+19D2", "U+1A82",
     "U+1A92", "U+1B52", "U+1BB2", "U+1C42", "U+1C52", "U+A622", "U+A8D2", "U+A902",
     "U+A9D2", "U+A9F2", "U+AA52", "U+ABF2", "U+FF12", "U+104A2", "U+10D32", "U+11068",
     "U+110F2", "U+11138", "U+111D2", "U+112F2", "U+11452", "U+114D2", "U+11652",
     "U+116C2", "U+11732", "U+118E2", "U+11952", "U+11C52", "U+11D52", "U+11DA2",
     "U+16A62", "U+16AC2", "U+16B52", "U+1D7D0", "U+1D7DA", "U+1D7E4", "U+1D7EE",
     "U+1D7F8", "U+1E142", "U+1E2F2", "U+1E952", "U+1FBF2"},
    {"3", "U+0663", "U+06F3", "U+07C3", "U+0969", "U+09E9", "U+0A69", "U+0AE9",
     "U+0B69", "U+0BE9", "U+0C69", "U+0CE9", "U+0D69", "U+0DE9", "U+0E53", "U+0ED3",
     "U+0F23", "U+1043", "U+1093", "U+17E3", "U+1813", "U+1949", "U+19D3", "U+1A83",
     "U+1A93", "U+1B53", "U+1BB3", "U+1C43", "U+1C53", "U+A623", "U+A8D3", "U+A903",
     "U+A9D3", "U+A9F3", "U+AA53", "U+ABF3", "U+FF13", "U+104A3", "U+10D33", "U+11069",
     "U+110F3", "U+11139", "U+111D3", "U+112F3", "U+11453", "U+114D3", "U+11653",
     "U+116C3", "U+11733", "U+118E3", "U+11953", "U+11C53", "U+11D53", "U+11DA3",
     "U+16A63", "U+16AC3", "U+16B53", "U+1D7D1", "U+1D7DB", "U+1D7E5", "U+1D7EF",
     "U+1D7F9", "U+1E143", "U+1E2F3", "U+1E953", "U+1FBF3"},
    {"4", "U+0664", "U+06F4", "U+07C4", "U+096A", "U+09EA", "U+0A6A", "U+0AEA",
     "U+0B6A", "U+0BEA", "U+0C6A", "U+0CEA", "U+0D6A", "U+0DEA", "U+0E54", "U+0ED4",
     "U+0F24", "U+1044", "U+1094", "U+17E4", "U+1814", "U+194A", "U+19D4", "U+1A84",
     "U+1A94", "U+1B54", "U+1BB4", "U+1C44", "U+1C54", "U+A624", "U+A8D4", "U+A904",
     "U+A9D4", "U+A9F4", "U+AA54", "U+ABF4", "U+FF14", "U+104A4", "U+10D34", "U+1106A",
     "U+110F4", "U+1113A", "U+111D4", "U+112F4", "U+11454", "U+114D4", "U+11654",
     "U+116C4", "U+11734", "U+118E4", "U+11954", "U+11C54", "U+11D54", "U+11DA4",
     "U+16A64", "U+16AC4", "U+16B54", "U+1D7D2", "U+1D7DC", "U+1D7E6", "U+1D7F0",
     "U+1D7FA", "U+1E144", "U+1E2F4", "U+1E954", "U+1FBF4"},
    {"5", "U+0665", "U+06F5", "U+07C5", "U+096B", "U+09EB", "U+0A6B", "U+0AEB",
     "U+0B6B", "U+0BEB", "U+0C6B", "U+0CEB", "U+0D6B", "U+0DEB", "U+0E55", "U+0ED5",
     "U+0F25", "U+1045", "U+1095", "U+17E5", "U+1815", "U+194B", "U+19D5", "U+1A85",
     "U+1A95", "U+1B55", "U+1BB5", "U+1C45", "U+1C55", "U+A625", "U+A8D5", "U+A905",
     "U+A9D5", "U+A9F5", "U+AA55", "U+ABF5", "U+FF15", "U+104A5", "U+10D35", "U+1106B",
     "U+110F5", "U+1113B", "U+111D5", "U+112F5", "U+11455", "U+114D5", "U+11655",
     "U+116C5", "U+11735", "U+118E5", "U+11955", "U+11C55", "U+11D55", "U+11DA5",
     "U+16A65", "U+16AC5", "U+16B55", "U+1D7D3", "U+1D7DD", "U+1D7E7", "U+1D7F1",
     "U+1D7FB", "U+1E145", "U+1E2F5", "U+1E955", "U+1FBF5"},
    {"6", "U+0666", "U+06F6", "U+07C6", "U+096C", "U+09EC", "U+0A6C", "U+0AEC",
     "U+0B6C", "U+0BEC", "U+0C6C", "U+0CEC", "U+0D6C", "U+0DEC", "U+0E56", "U+0ED6",
     "U+0F26", "U+1046", "U+1096", "U+17E6", "U+1816", "U+194C", "U+19D6", "U+1A86",
     "U+1A96", "U+1B56", "U+1BB6", "U+1C46", "U+1C56", "U+A626", "U+A8D6", "U+A906",
     "U+A9D6", "U+A9F6", "U+AA56", "U+ABF6", "U+FF16", "U+104A6", "U+10D36", "U+1106C",
     "U+110F6", "U+1113C", "U+111D6", "U+112F6", "U+11456", "U+114D6", "U+11656",
     "U+116C6", "U+11736", "U+118E6", "U+11956", "U+11C56", "U+11D56", "U+11DA6",
     "U+16A66", "U+16AC6", "U+16B56", "U+1D7D4", "U+1D7DE", "U+1D7E8", "U+1D7F2",
     "U+1D7FC", "U+1E146", "U+1E2F6", "U+1E956", "U+1FBF6"},
    {"7", "U+0667", "U+06F7", "U+07C7", "U+096D", "U+09ED", "U+0A6D", "U+0AED",
     "U+0B6D", "U+0BED", "U+0C6D", "U+0CED", "U+0D6D", "U+0DED", "U+0E57", "U+0ED7",
     "U+0F27", "U+1047", "U+1097", "U+17E7", "U+1817", "U+194D", "U+19D7", "U+1A87",
     "U+1A97", "U+1B57", "U+1BB7", "U+1C47", "U+1C57", "U+A627", "U+A8D7", "U+A907",
     "U+A9D7", "U+A9F7", "U+AA57", "U+ABF7", "U+FF17", "U+104A7", "U+10D37", "U+1106D",
     "U+110F7", "U+1113D", "U+111D7", "U+112F7", "U+11457", "U+114D7", "U+11657",
     "U+116C7", "U+11737", "U+118E7", "U+11957", "U+11C57", "U+11D57", "U+11DA7",
     "U+16A67", "U+16AC7", "U+16B57", "U+1D7D5", "U+1D7DF", "U+1D7E9", "U+1D7F3",
     "U+1D7FD", "U+1E147", "U+1E2F7", "U+1E957", "U+1FBF7"},
    {"8", "U+0668", "U+06F8", "U+07C8", "U+096E", "U+09EE", "U+0A6E", "U+0AEE",
     "U+0B6E", "U+0BEE", "U+0C6E", "U+0CEE", "U+0D6E", "U+0DEE", "U+0E58", "U+0ED8",
     "U+0F28", "U+1048", "U+1098", "U+17E8", "U+1818", "U+194E", "U+19D8", "U+1A88",
     "U+1A98", "U+1B58", "U+1BB8", "U+1C48", "U+1C58", "U+A628", "U+A8D8", "U+A908",
     "U+A9D8", "U+A9F8", "U+AA58", "U+ABF8", "U+FF18", "U+104A8", "U+10D38", "U+1106E",
     "U+110F8", "U+1113E", "U+111D8", "U+112F8", "U+11458", "U+114D8", "U+11658",
     "U+116C8", "U+11738", "U+118E8", "U+11958", "U+11C58", "U+11D58", "U+11DA8",
     "U+16A68", "U+16AC8", "U+16B58", "U+1D7D6", "U+1D7E0", "U+1D7EA", "U+1D7F4",
     "U+1D7FE", "U+1E148", "U+1E2F8", "U+1E958", "U+1FBF8"},
    {"9", "U+0669", "U+06F9", "U+07C9", "U+096F", "U+09EF", "U+0A6F", "U+0AEF",
     "U+0B6F", "U+0BEF", "U+0C6F", "U+0CEF", "U+0D6F", "U+0DEF", "U+0E59", "U+0ED9",
     "U+0F29", "U+1049", "U+1099", "U+17E9", "U+1819", "U+194F", "U+19D9", "U+1A89",
     "U+1A99", "U+1B59", "U+1BB9", "U+1C49", "U+1C59", "U+A629", "U+A8D9", "U+A909",
     "U+A9D9", "U+A9F9", "U+AA59", "U+ABF9", "U+FF19", "U+104A9", "U+10D39", "U+1106F",
     "U+110F9", "U+1113F", "U+111D9", "U+112F9", "U+11459", "U+114D9", "U+11659",
     "U+116C9", "U+11739", "U+118E9", "U+11959", "U+11C59", "U+11D59", "U+11DA9",
     "U+16A69", "U+16AC9", "U+16B59", "U+1D7D7", "U+1D7E1", "U+1D7EB", "U+1D7F5",
     "U+1D7FF", "U+1E149", "U+1E2F9", "U+1E959", "U+1FBF9"} >>

\* \d of the re module in a str pattern: any decimal digit of Unicode
IsDigit(c) == \E v \in 1..10 : c \in DecimalDigits[v]

\* int() of one digit
DigitValue(c) == (CHOOSE v \in 1..10 : c \in DecimalDigits[v]) - 1

\* the lower case of the characters whose lower case is one character of Latin-1: A..Z,
\* the capitals of Latin-1 (U+00C0..U+00DE without U+00D7), and U+0178, U+1E9E, U+212A
\* (Kelvin sign), U+212B (Angstrom sign)
ToLower ==
    LET upper == UpperLetters \o <<"À","Á","Â","Ã","Ä","Å","Æ","Ç","È","É","Ê","Ë","Ì","Í","Î","Ï","Ð","Ñ","Ò","Ó","Ô","Õ","Ö","Ø","Ù","Ú","Û","Ü","Ý","Þ">>
        small == LowerLetters \o <<"à","á","â","ã","ä","å","æ","ç","è","é","ê","ë","ì","í","î","ï","ð","ñ","ò","ó","ô","õ","ö","ø","ù","ú","û","ü","ý","þ">>
    IN  [c \in Range(upper) |-> small[CHOOSE k \in 1..Len(upper) : upper[k] = c]]
        @@ ("U+0178" :> "ÿ") @@ ("U+1E9E" :> "ß") @@ ("U+212A" :> "k") @@ ("U+212B" :> "å")

HexDigits == <<"0","1","2","3","4","5","6","7","8","9","A","B","C","D","E","F">>

\* the code point of a character written by its code point
CodePoint(c) ==
    LET digit(k) == IF k > Len(c) - 2 THEN 0
                    ELSE (CHOOSE v \in 1..16 :
                              HexDigits[v] = SubSeq(c, Len(c) - k + 1, Len(c) - k + 1)) - 1
    IN  digit(1) + 16 * digit(2) + 256 * digit(3) + 4096 * digit(4)
            + 65536 * digit(5) + 1048576 * digit(6)

\* the character beyond Latin-1 of code point n
CharName(n) ==
    LET hex(k) == HexDigits[((n \div (16 ^ k)) % 16) + 1]
        low    == hex(3) \o hex(2) \o hex(1) \o hex(0)
    IN  IF n < 65536 THEN "U+" \o low
        ELSE IF n < 1048576 THEN "U+" \o hex(4) \o low
        ELSE "U+" \o hex(5) \o hex(4) \o low

\* n lies in one of the ranges <<first, last>> of code points
InRanges(n, ranges) == \E r \in 1..Len(ranges) : ranges[r][1] <= n /\ n <= ranges[r][2]

\* the lower case of the capitals beyond Latin-1 whose lower case is one character beyond
\* Latin-1, as str.lower() of Python 3.11 (Unicode 14) gives it: <<first, last, step, delta>>
\* says that the code points first, first + step, .. last have the lower case delta further
Lowercase == <<
    <<256, 302, 2, 1>>, <<306, 310, 2, 1>>, <<313, 327, 2, 1>>, <<330, 374, 2, 1>>,
    <<377, 381, 2, 1>>, <<385, 385, 1, 210>>, <<386, 388, 2, 1>>, <<390, 390, 1, 206>>,
    <<391, 391, 1, 1>>, <<393, 394, 1, 205>>, <<395, 395, 1, 1>>, <<398, 398, 1, 79>>,
    <<399, 399, 1, 202>>, <<400, 400, 1, 203>>, <<401, 401, 1, 1>>,
    <<403, 403, 1, 205>>, <<404, 404, 1, 207>>, <<406, 406, 1, 211>>,
    <<407, 407, 1, 209>>, <<408, 408, 1, 1>>, <<412, 412, 1, 211>>,
    <<413, 413, 1, 213>>, <<415, 415, 1, 214>>, <<416, 420, 2, 1>>,
    <<422, 422, 1, 218>>, <<423, 423, 1, 1>>, <<425, 425, 1, 218>>, <<428, 428, 1, 1>>,
    <<430, 430, 1, 218>>, <<431, 431, 1, 1>>, <<433, 434, 1, 217>>, <<435, 437, 2, 1>>,
    <<439, 439, 1, 219>>, <<440, 440, 1, 1>>, <<444, 444, 1, 1>>, <<452, 452, 1, 2>>,
    <<453, 453, 1, 1>>, <<455, 455, 1, 2>>, <<456, 456, 1, 1>>, <<458, 458, 1, 2>>,
    <<459, 475, 2, 1>>, <<478, 494, 2, 1>>, <<497, 497, 1, 2>>, <<498, 500, 2, 1>>,
    <<502, 502, 1, (0 - 97)>>, <<503, 503, 1, (0 - 56)>>, <<504, 542, 2, 1>>,
    <<544, 544, 1, (0 - 130)>>, <<546, 562, 2, 1>>, <<570, 570, 1, 10795>>,
    <<571, 571, 1, 1>>, <<573, 573, 1, (0 - 163)>>, <<574, 574, 1, 10792>>,
    <<577, 577, 1, 1>>, <<579, 579, 1, (0 - 195)>>, <<580, 580, 1, 69>>,
    <<581, 581, 1, 71>>, <<582, 590, 2, 1>>, <<880, 882, 2, 1>>, <<886, 886, 1, 1>>,
    <<895, 895, 1, 116>>, <<902, 902, 1, 38>>, <<904, 906, 1, 37>>, <<908, 908, 1, 64>>,
    <<910, 911, 1, 63>>, <<913, 929, 1, 32>>, <<931, 939, 1, 32>>, <<975, 975, 1, 8>>,
    <<984, 1006, 2, 1>>, <<1012, 1012, 1, (0 - 60)>>, <<1015, 1015, 1, 1>>,
    <<1017, 1017, 1, (0 - 7)>>, <<1018, 1018, 1, 1>>, <<1021, 1023, 1, (0 - 130)>>,
    <<1024, 1039, 1, 80>>, <<1040, 1071, 1, 32>>, <<1120, 1152, 2, 1>>,
    <<1162, 1214, 2, 1>>, <<1216, 1216, 1, 15>>, <<1217, 1229, 2, 1>>,
    <<1232, 1326, 2, 1>>, <<1329, 1366, 1, 48>>, <<4256, 4293, 1, 7264>>,
    <<4295, 4295, 1, 7264>>, <<4301, 4301, 1, 7264>>, <<5024, 5103, 1, 38864>>,
    <<5104, 5109, 1, 8>>, <<7312, 7354, 1, (0 - 3008)>>, <<7357, 7359, 1, (0 - 3008)>>,
    <<7680, 7828, 2, 1>>, <<7840, 7934, 2, 1>>, <<7944, 7951, 1, (0 - 8)>>,
    <<7960, 7965, 1, (0 - 8)>>, <<7976, 7983, 1, (0 - 8)>>, <<7992, 7999, 1, (0 - 8)>>,
    <<8008, 8013, 1, (0 - 8)>>, <<8025, 8031, 2, (0 - 8)>>, <<8040, 8047, 1, (0 - 8)>>,
    <<8072, 8079, 1, (0 - 8)>>, <<8088, 8095, 1, (0 - 8)>>, <<8104, 8111, 1, (0 - 8)>>,
    <<8120, 8121, 1, (0 - 8)>>, <<8122, 8123, 1, (0 - 74)>>, <<8124, 8124, 1, (0 - 9)>>,
    <<8136, 8139, 1, (0 - 86)>>, <<8140, 8140, 1, (0 - 9)>>, <<8152, 8153, 1, (0 - 8)>>,
    <<8154, 8155, 1, (0 - 100)>>, <<8168, 8169, 1, (0 - 8)>>,
    <<8170, 8171, 1, (0 - 112)>>, <<8172, 8172, 1, (0 - 7)>>,
    <<8184, 8185, 1, (0 - 128)>>, <<8186, 8187, 1, (0 - 126)>>,
    <<8188, 8188, 1, (0 - 9)>>, <<8486, 8486, 1, (0 - 7517)>>, <<8498, 8498, 1, 28>>,
    <<8544, 8559, 1, 16>>, <<8579, 8579, 1, 1>>, <<9398, 9423, 1, 26>>,
    <<11264, 11311, 1, 48>>, <<11360, 11360, 1, 1>>, <<11362, 11362, 1, (0 - 10743)>>,
    <<11363, 11363, 1, (0 - 3814)>>, <<11364, 11364, 1, (0 - 10727)>>,
    <<11367, 11371, 2, 1>>, <<11373, 11373, 1, (0 - 10780)>>,
    <<11374, 11374, 1, (0 - 10749)>>, <<11375, 11375, 1, (0 - 10783)>>,
    <<11376, 11376, 1, (0 - 10782)>>, <<11378, 11378, 1, 1>>, <<11381, 11381, 1, 1>>,
    <<11390, 11391, 1, (0 - 10815)>>, <<11392, 11490, 2, 1>>, <<11499, 11501, 2, 1>>,
    <<11506, 11506, 1, 1>>, <<42560, 42604, 2, 1>>, <<42624, 42650, 2, 1>>,
    <<42786, 42798, 2, 1>>, <<42802, 42862, 2, 1>>, <<42873, 42875, 2, 1>>,
    <<42877, 42877, 1, (0 - 35332)>>, <<42878, 42886, 2, 1>>, <<42891, 42891, 1, 1>>,
    <<42893, 42893, 1, (0 - 42280)>>, <<42896, 42898, 2, 1>>, <<42902, 42920, 2, 1>>,
    <<42922, 42922, 1, (0 - 42308)>>, <<42923, 42923, 1, (0 - 42319)>>,
    <<42924, 42924, 1, (0 - 42315)>>, <<42925, 42925, 1, (0 - 42305)>>,
    <<42926, 42926, 1, (0 - 42308)>>, <<42928, 42928, 1, (0 - 42258)>>,
    <<42929, 42929, 1, (0 - 42282)>>, <<42930, 42930, 1, (0 - 42261)>>,
    <<42931, 42931, 1, 928>>, <<42932, 42946, 2, 1>>, <<42948, 42948, 1, (0 - 48)>>,
    <<42949, 42949, 1, (0 - 42307)>>, <<42950, 42950, 1, (0 - 35384)>>,
    <<42951, 42953, 2, 1>>, <<42960, 42960, 1, 1>>, <<42966, 42968, 2, 1>>,
    <<42997, 42997, 1, 1>>, <<65313, 65338, 1, 32>>, <<66560, 66599, 1, 40>>,
    <<66736, 66771, 1, 40>>, <<66928, 66938, 1, 39>>, <<66940, 66954, 1, 39>>,
    <<66956, 66962, 1, 39>>, <<66964, 66965, 1, 39>>, <<68736, 68786, 1, 64>>,
    <<71840, 71871, 1, 32>>, <<93760, 93791, 1, 32>>, <<125184, 125217, 1, 34>> >>

\* the cased characters beyond Latin-1 that are not case-ignorable, as ranges <<first, last>>
Cased == <<
    <<256, 442>>, <<444, 447>>, <<452, 659>>, <<661, 687>>, <<880, 883>>, <<886, 887>>,
    <<891, 893>>, <<895, 895>>, <<902, 902>>, <<904, 906>>, <<908, 908>>, <<910, 929>>,
    <<931, 1013>>, <<1015, 1153>>, <<1162, 1327>>, <<1329, 1366>>, <<1376, 1416>>,
    <<4256, 4293>>, <<4295, 4295>>, <<4301, 4301>>, <<4304, 4346>>, <<4349, 4351>>,
    <<5024, 5109>>, <<5112, 5117>>, <<7296, 7304>>, <<7312, 7354>>, <<7357, 7359>>,
    <<7424, 7467>>, <<7531, 7543>>, <<7545, 7578>>, <<7680, 7957>>, <<7960, 7965>>,
    <<7968, 8005>>, <<8008, 8013>>, <<8016, 8023>>, <<8025, 8025>>, <<8027, 8027>>,
    <<8029, 8029>>, <<8031, 8061>>, <<8064, 8116>>, <<8118, 8124>>, <<8126, 8126>>,
    <<8130, 8132>>, <<8134, 8140>>, <<8144, 8147>>, <<8150, 8155>>, <<8160, 8172>>,
    <<8178, 8180>>, <<8182, 8188>>, <<8450, 8450>>, <<8455, 8455>>, <<8458, 8467>>,
    <<8469, 8469>>, <<8473, 8477>>, <<8484, 8484>>, <<8486, 8486>>, <<8488, 8488>>,
    <<8490, 8493>>, <<8495, 8500>>, <<8505, 8505>>, <<8508, 8511>>, <<8517, 8521>>,
    <<8526, 8526>>, <<8544, 8575>>, <<8579, 8580>>, <<9398, 9449>>, <<11264, 11387>>,
    <<11390, 11492>>, <<11499, 11502>>, <<11506, 11507>>, <<11520, 11557>>,
    <<11559, 11559>>, <<11565, 11565>>, <<42560, 42605>>, <<42624, 42651>>,
    <<42786, 42863>>, <<42865, 42887>>, <<42891, 42894>>, <<42896, 42954>>,
    <<42960, 42961>>, <<42963, 42963>>, <<42965, 42969>>, <<42997, 42998>>,
    <<43002, 43002>>, <<43824, 43866>>, <<43872, 43880>>, <<43888, 43967>>,
    <<64256, 64262>>, <<64275, 64279>>, <<65313, 65338>>, <<65345, 65370>>,
    <<66560, 66639>>, <<66736, 66771>>, <<66776, 66811>>, <<66928, 66938>>,
    <<66940, 66954>>, <<66956, 66962>>, <<66964, 66965>>, <<66967, 66977>>,
    <<66979, 66993>>, <<66995, 67001>>, <<67003, 67004>>, <<68736, 68786>>,
    <<68800, 68850>>, <<71840, 71903>>, <<93760, 93823>>, <<119808, 119892>>,
    <<119894, 119964>>, <<119966, 119967>>, <<119970, 119970>>, <<119973, 119974>>,
    <<119977, 119980>>, <<119982, 119993>>, <<119995, 119995>>, <<119997, 120003>>,
    <<120005, 120069>>, <<120071, 120074>>, <<120077, 120084>>, <<120086, 120092>>,
    <<120094, 120121>>, <<120123, 120126>>, <<120128, 120132>>, <<120134, 120134>>,
    <<120138, 120144>>, <<120146, 120485>>, <<120488, 120512>>, <<120514, 120538>>,
    <<120540, 120570>>, <<120572, 120596>>, <<120598, 120628>>, <<120630, 120654>>,
    <<120656, 120686>>, <<120688, 120712>>, <<120714, 120744>>, <<120746, 120770>>,
    <<120772, 120779>>, <<122624, 122633>>, <<122635, 122654>>, <<125184, 125251>>,
    <<127280, 127305>>, <<127312, 127337>>, <<127344, 127369>> >>

\* the case-ignorable characters beyond Latin-1, as ranges <<first, last>>
CaseIgnorable == <<
    <<688, 879>>, <<884, 885>>, <<890, 890>>, <<900, 901>>, <<903, 903>>,
    <<1155, 1161>>, <<1369, 1369>>, <<1375, 1375>>, <<1425, 1469>>, <<1471, 1471>>,
    <<1473, 1474>>, <<1476, 1477>>, <<1479, 1479>>, <<1524, 1524>>, <<1536, 1541>>,
    <<1552, 1562>>, <<1564, 1564>>, <<1600, 1600>>, <<1611, 1631>>, <<1648, 1648>>,
    <<1750, 1757>>, <<1759, 1768>>, <<1770, 1773>>, <<1807, 1807>>, <<1809, 1809>>,
    <<1840, 1866>>, <<1958, 1968>>, <<2027, 2037>>, <<2042, 2042>>, <<2045, 2045>>,
    <<2070, 2093>>, <<2137, 2139>>, <<2184, 2184>>, <<2192, 2193>>, <<2200, 2207>>,
    <<2249, 2306>>, <<2362, 2362>>, <<2364, 2364>>, <<2369, 2376>>, <<2381, 2381>>,
    <<2385, 2391>>, <<2402, 2403>>, <<2417, 2417>>, <<2433, 2433>>, <<2492, 2492>>,
    <<2497, 2500>>, <<2509, 2509>>, <<2530, 2531>>, <<2558, 2558>>, <<2561, 2562>>,
    <<2620, 2620>>, <<2625, 2626>>, <<2631, 2632>>, <<2635, 2637>>, <<2641, 2641>>,
    <<2672, 2673>>, <<2677, 2677>>, <<2689, 2690>>, <<2748, 2748>>, <<2753, 2757>>,
    <<2759, 2760>>, <<2765, 2765>>, <<2786, 2787>>, <<2810, 2815>>, <<2817, 2817>>,
    <<2876, 2876>>, <<2879, 2879>>, <<2881, 2884>>, <<2893, 2893>>, <<2901, 2902>>,
    <<2914, 2915>>, <<2946, 2946>>, <<3008, 3008>>, <<3021, 3021>>, <<3072, 3072>>,
    <<3076, 3076>>, <<3132, 3132>>, <<3134, 3136>>, <<3142, 3144>>, <<3146, 3149>>,
    <<3157, 3158>>, <<3170, 3171>>, <<3201, 3201>>, <<3260, 3260>>, <<3263, 3263>>,
    <<3270, 3270>>, <<3276, 3277>>, <<3298, 3299>>, <<3328, 3329>>, <<3387, 3388>>,
    <<3393, 3396>>, <<3405, 3405>>, <<3426, 3427>>, <<3457, 3457>>, <<3530, 3530>>,
    <<3538, 3540>>, <<3542, 3542>>, <<3633, 3633>>, <<3636, 3642>>, <<3654, 3662>>,
    <<3761, 3761>>, <<3764, 3772>>, <<3782, 3782>>, <<3784, 3789>>, <<3864, 3865>>,
    <<3893, 3893>>, <<3895, 3895>>, <<3897, 3897>>, <<3953, 3966>>, <<3968, 3972>>,
    <<3974, 3975>>, <<3981, 3991>>, <<3993, 4028>>, <<4038, 4038>>, <<4141, 4144>>,
    <<4146, 4151>>, <<4153, 4154>>, <<4157, 4158>>, <<4184, 4185>>, <<4190, 4192>>,
    <<4209, 4212>>, <<4226, 4226>>, <<4229, 4230>>, <<4237, 4237>>, <<4253, 4253>>,
    <<4348, 4348>>, <<4957, 4959>>, <<5906, 5908>>, <<5938, 5939>>, <<5970, 5971>>,
    <<6002, 6003>>, <<6068, 6069>>, <<6071, 6077>>, <<6086, 6086>>, <<6089, 6099>>,
    <<6103, 6103>>, <<6109, 6109>>, <<6155, 6159>>, <<6211, 6211>>, <<6277, 6278>>,
    <<6313, 6313>>, <<6432, 6434>>, <<6439, 6440>>, <<6450, 6450>>, <<6457, 6459>>,
    <<6679, 6680>>, <<6683, 6683>>, <<6742, 6742>>, <<6744, 6750>>, <<6752, 6752>>,
    <<6754, 6754>>, <<6757, 6764>>, <<6771, 6780>>, <<6783, 6783>>, <<6823, 6823>>,
    <<6832, 6862>>, <<6912, 6915>>, <<6964, 6964>>, <<6966, 6970>>, <<6972, 6972>>,
    <<6978, 6978>>, <<7019, 7027>>, <<7040, 7041>>, <<7074, 7077>>, <<7080, 7081>>,
    <<7083, 7085>>, <<7142, 7142>>, <<7144, 7145>>, <<7149, 7149>>, <<7151, 7153>>,
    <<7212, 7219>>, <<7222, 7223>>, <<7288, 7293>>, <<7376, 7378>>, <<7380, 7392>>,
    <<7394, 7400>>, <<7405, 7405>>, <<7412, 7412>>, <<7416, 7417>>, <<7468, 7530>>,
    <<7544, 7544>>, <<7579, 7679>>, <<8125, 8125>>, <<8127, 8129>>, <<8141, 8143>>,
    <<8157, 8159>>, <<8173, 8175>>, <<8189, 8190>>, <<8203, 8207>>, <<8216, 8217>>,
    <<8228, 8228>>, <<8231, 8231>>, <<8234, 8238>>, <<8288, 8292>>, <<8294, 8303>>,
    <<8305, 8305>>, <<8319, 8319>>, <<8336, 8348>>, <<8400, 8432>>, <<11388, 11389>>,
    <<11503, 11505>>, <<11631, 11631>>, <<11647, 11647>>, <<11744, 11775>>,
    <<11823, 11823>>, <<12293, 12293>>, <<12330, 12333>>, <<12337, 12341>>,
    <<12347, 12347>>, <<12441, 12446>>, <<12540, 12542>>, <<40981, 40981>>,
    <<42232, 42237>>, <<42508, 42508>>, <<42607, 42610>>, <<42612, 42621>>,
    <<42623, 42623>>, <<42652, 42655>>, <<42736, 42737>>, <<42752, 42785>>,
    <<42864, 42864>>, <<42888, 42890>>, <<42994, 42996>>, <<43000, 43001>>,
    <<43010, 43010>>, <<43014, 43014>>, <<43019, 43019>>, <<43045, 43046>>,
    <<43052, 43052>>, <<43204, 43205>>, <<43232, 43249>>, <<43263, 43263>>,
    <<43302, 43309>>, <<43335, 43345>>, <<43392, 43394>>, <<43443, 43443>>,
    <<43446, 43449>>, <<43452, 43453>>, <<43471, 43471>>, <<43493, 43494>>,
    <<43561, 43566>>, <<43569, 43570>>, <<43573, 43574>>, <<43587, 43587>>,
    <<43596, 43596>>, <<43632, 43632>>, <<43644, 43644>>, <<43696, 43696>>,
    <<43698, 43700>>, <<43703, 43704>>, <<43710, 43711>>, <<43713, 43713>>,
    <<43741, 43741>>, <<43756, 43757>>, <<43763, 43764>>, <<43766, 43766>>,
    <<43867, 43871>>, <<43881, 43883>>, <<44005, 44005>>, <<44008, 44008>>,
    <<44013, 44013>>, <<64286, 64286>>, <<64434, 64450>>, <<65024, 65039>>,
    <<65043, 65043>>, <<65056, 65071>>, <<65106, 65106>>, <<65109, 65109>>,
    <<65279, 65279>>, <<65287, 65287>>, <<65294, 65294>>, <<65306, 65306>>,
    <<65342, 65342>>, <<65344, 65344>>, <<65392, 65392>>, <<65438, 65439>>,
    <<65507, 65507>>, <<65529, 65531>>, <<66045, 66045>>, <<66272, 66272>>,
    <<66422, 66426>>, <<67456, 67461>>, <<67463, 67504>>, <<67506, 67514>>,
    <<68097, 68099>>, <<68101, 68102>>, <<68108, 68111>>, <<68152, 68154>>,
    <<68159, 68159>>, <<68325, 68326>>, <<68900, 68903>>, <<69291, 69292>>,
    <<69446, 69456>>, <<69506, 69509>>, <<69633, 69633>>, <<69688, 69702>>,
    <<69744, 69744>>, <<69747, 69748>>, <<69759, 69761>>, <<69811, 69814>>,
    <<69817, 69818>>, <<69821, 69821>>, <<69826, 69826>>, <<69837, 69837>>,
    <<69888, 69890>>, <<69927, 69931>>, <<69933, 69940>>, <<70003, 70003>>,
    <<70016, 70017>>, <<70070, 70078>>, <<70089, 70092>>, <<70095, 70095>>,
    <<70191, 70193>>, <<70196, 70196>>, <<70198, 70199>>, <<70206, 70206>>,
    <<70367, 70367>>, <<70371, 70378>>, <<70400, 70401>>, <<70459, 70460>>,
    <<70464, 70464>>, <<70502, 70508>>, <<70512, 70516>>, <<70712, 70719>>,
    <<70722, 70724>>, <<70726, 70726>>, <<70750, 70750>>, <<70835, 70840>>,
    <<70842, 70842>>, <<70847, 70848>>, <<70850, 70851>>, <<71090, 71093>>,
    <<71100, 71101>>, <<71103, 71104>>, <<71132, 71133>>, <<71219, 71226>>,
    <<71229, 71229>>, <<71231, 71232>>, <<71339, 71339>>, <<71341, 71341>>,
    <<71344, 71349>>, <<71351, 71351>>, <<71453, 71455>>, <<71458, 71461>>,
    <<71463, 71467>>, <<71727, 71735>>, <<71737, 71738>>, <<71995, 71996>>,
    <<71998, 71998>>, <<72003, 72003>>, <<72148, 72151>>, <<72154, 72155>>,
    <<72160, 72160>>, <<72193, 72202>>, <<72243, 72248>>, <<72251, 72254>>,
    <<72263, 72263>>, <<72273, 72278>>, <<72281, 72283>>, <<72330, 72342>>,
    <<72344, 72345>>, <<72752, 72758>>, <<72760, 72765>>, <<72767, 72767>>,
    <<72850, 72871>>, <<72874, 72880>>, <<72882, 72883>>, <<72885, 72886>>,
    <<73009, 73014>>, <<73018, 73018>>, <<73020, 73021>>, <<73023, 73029>>,
    <<73031, 73031>>, <<73104, 73105>>, <<73109, 73109>>, <<73111, 73111>>,
    <<73459, 73460>>, <<78896, 78904>>, <<92912, 92916>>, <<92976, 92982>>,
    <<92992, 92995>>, <<94031, 94031>>, <<94095, 94111>>, <<94176, 94177>>,
    <<94179, 94180>>, <<110576, 110579>>, <<110581, 110587>>, <<110589, 110590>>,
    <<113821, 113822>>, <<113824, 113827>>, <<118528, 118573>>, <<118576, 118598>>,
    <<119143, 119145>>, <<119155, 119170>>, <<119173, 119179>>, <<119210, 119213>>,
    <<119362, 119364>>, <<121344, 121398>>, <<121403, 121452>>, <<121461, 121461>>,
    <<121476, 121476>>, <<121499, 121503>>, <<121505, 121519>>, <<122880, 122886>>,
    <<122888, 122904>>, <<122907, 122913>>, <<122915, 122916>>, <<122918, 122922>>,
    <<123184, 123197>>, <<123566, 123566>>, <<123628, 123631>>, <<125136, 125142>>,
    <<125252, 125259>>, <<127995, 127999>>, <<917505, 917505>>, <<917536, 917631>>,
    <<917760, 917999>> >>

\* the letters and numbers beyond Latin-1 (str.isalnum()), as ranges <<first, last>>
Alphanumeric == <<
    <<256, 705>>, <<710, 721>>, <<736, 740>>, <<748, 748>>, <<750, 750>>, <<880, 884>>,
    <<886, 887>>, <<890, 893>>, <<895, 895>>, <<902, 902>>, <<904, 906>>, <<908, 908>>,
    <<910, 929>>, <<931, 1013>>, <<1015, 1153>>, <<1162, 1327>>, <<1329, 1366>>,
    <<1369, 1369>>, <<1376, 1416>>, <<1488, 1514>>, <<1519, 1522>>, <<1568, 1610>>,
    <<1632, 1641>>, <<1646, 1647>>, <<1649, 1747>>, <<1749, 1749>>, <<1765, 1766>>,
    <<1774, 1788>>, <<1791, 1791>>, <<1808, 1808>>, <<1810, 1839>>, <<1869, 1957>>,
    <<1969, 1969>>, <<1984, 2026>>, <<2036, 2037>>, <<2042, 2042>>, <<2048, 2069>>,
    <<2074, 2074>>, <<2084, 2084>>, <<2088, 2088>>, <<2112, 2136>>, <<2144, 2154>>,
    <<2160, 2183>>, <<2185, 2190>>, <<2208, 2249>>, <<2308, 2361>>, <<2365, 2365>>,
    <<2384, 2384>>, <<2392, 2401>>, <<2406, 2415>>, <<2417, 2432>>, <<2437, 2444>>,
    <<2447, 2448>>, <<2451, 2472>>, <<2474, 2480>>, <<2482, 2482>>, <<2486, 2489>>,
    <<2493, 2493>>, <<2510, 2510>>, <<2524, 2525>>, <<2527, 2529>>, <<2534, 2545>>,
    <<2548, 2553>>, <<2556, 2556>>, <<2565, 2570>>, <<2575, 2576>>, <<2579, 2600>>,
    <<2602, 2608>>, <<2610, 2611>>, <<2613, 2614>>, <<2616, 2617>>, <<2649, 2652>>,
    <<2654, 2654>>, <<2662, 2671>>, <<2674, 2676>>, <<2693, 2701>>, <<2703, 2705>>,
    <<2707, 2728>>, <<2730, 2736>>, <<2738, 2739>>, <<2741, 2745>>, <<2749, 2749>>,
    <<2768, 2768>>, <<2784, 2785>>, <<2790, 2799>>, <<2809, 2809>>, <<2821, 2828>>,
    <<2831, 2832>>, <<2835, 2856>>, <<2858, 2864>>, <<2866, 2867>>, <<2869, 2873>>,
    <<2877, 2877>>, <<2908, 2909>>, <<2911, 2913>>, <<2918, 2927>>, <<2929, 2935>>,
    <<2947, 2947>>, <<2949, 2954>>, <<2958, 2960>>, <<2962, 2965>>, <<2969, 2970>>,
    <<2972, 2972>>, <<2974, 2975>>, <<2979, 2980>>, <<2984, 2986>>, <<2990, 3001>>,
    <<3024, 3024>>, <<3046, 3058>>, <<3077, 3084>>, <<3086, 3088>>, <<3090, 3112>>,
    <<3114, 3129>>, <<3133, 3133>>, <<3160, 3162>>, <<3165, 3165>>, <<3168, 3169>>,
    <<3174, 3183>>, <<3192, 3198>>, <<3200, 3200>>, <<3205, 3212>>, <<3214, 3216>>,
    <<3218, 3240>>, <<3242, 3251>>, <<3253, 3257>>, <<3261, 3261>>, <<3293, 3294>>,
    <<3296, 3297>>, <<3302, 3311>>, <<3313, 3314>>, <<3332, 3340>>, <<3342, 3344>>,
    <<3346, 3386>>, <<3389, 3389>>, <<3406, 3406>>, <<3412, 3414>>, <<3416, 3425>>,
    <<3430, 3448>>, <<3450, 3455>>, <<3461, 3478>>, <<3482, 3505>>, <<3507, 3515>>,
    <<3517, 3517>>, <<3520, 3526>>, <<3558, 3567>>, <<3585, 3632>>, <<3634, 3635>>,
    <<3648, 3654>>, <<3664, 3673>>, <<3713, 3714>>, <<3716, 3716>>, <<3718, 3722>>,
    <<3724, 3747>>, <<3749, 3749>>, <<3751, 3760>>, <<3762, 3763>>, <<3773, 3773>>,
    <<3776, 3780>>, <<3782, 3782>>, <<3792, 3801>>, <<3804, 3807>>, <<3840, 3840>>,
    <<3872, 3891>>, <<3904, 3911>>, <<3913, 3948>>, <<3976, 3980>>, <<4096, 4138>>,
    <<4159, 4169>>, <<4176, 4181>>, <<4186, 4189>>, <<4193, 4193>>, <<4197, 4198>>,
    <<4206, 4208>>, <<4213, 4225>>, <<4238, 4238>>, <<4240, 4249>>, <<4256, 4293>>,
    <<4295, 4295>>, <<4301, 4301>>, <<4304, 4346>>, <<4348, 4680>>, <<4682, 4685>>,
    <<4688, 4694>>, <<4696, 4696>>, <<4698, 4701>>, <<4704, 4744>>, <<4746, 4749>>,
    <<4752, 4784>>, <<4786, 4789>>, <<4792, 4798>>, <<4800, 4800>>, <<4802, 4805>>,
    <<4808, 4822>>, <<4824, 4880>>, <<4882, 4885>>, <<4888, 4954>>, <<4969, 4988>>,
    <<4992, 5007>>, <<5024, 5109>>, <<5112, 5117>>, <<5121, 5740>>, <<5743, 5759>>,
    <<5761, 5786>>, <<5792, 5866>>, <<5870, 5880>>, <<5888, 5905>>, <<5919, 5937>>,
    <<5952, 5969>>, <<5984, 5996>>, <<5998, 6000>>, <<6016, 6067>>, <<6103, 6103>>,
    <<6108, 6108>>, <<6112, 6121>>, <<6128, 6137>>, <<6160, 6169>>, <<6176, 6264>>,
    <<6272, 6276>>, <<6279, 6312>>, <<6314, 6314>>, <<6320, 6389>>, <<6400, 6430>>,
    <<6470, 6509>>, <<6512, 6516>>, <<6528, 6571>>, <<6576, 6601>>, <<6608, 6618>>,
    <<6656, 6678>>, <<6688, 6740>>, <<6784, 6793>>, <<6800, 6809>>, <<6823, 6823>>,
    <<6917, 6963>>, <<6981, 6988>>, <<6992, 7001>>, <<7043, 7072>>, <<7086, 7141>>,
    <<7168, 7203>>, <<7232, 7241>>, <<7245, 7293>>, <<7296, 7304>>, <<7312, 7354>>,
    <<7357, 7359>>, <<7401, 7404>>, <<7406, 7411>>, <<7413, 7414>>, <<7418, 7418>>,
    <<7424, 7615>>, <<7680, 7957>>, <<7960, 7965>>, <<7968, 8005>>, <<8008, 8013>>,
    <<8016, 8023>>, <<8025, 8025>>, <<8027, 8027>>, <<8029, 8029>>, <<8031, 8061>>,
    <<8064, 8116>>, <<8118, 8124>>, <<8126, 8126>>, <<8130, 8132>>, <<8134, 8140>>,
    <<8144, 8147>>, <<8150, 8155>>, <<8160, 8172>>, <<8178, 8180>>, <<8182, 8188>>,
    <<8304, 8305>>, <<8308, 8313>>, <<8319, 8329>>, <<8336, 8348>>, <<8450, 8450>>,
    <<8455, 8455>>, <<8458, 8467>>, <<8469, 8469>>, <<8473, 8477>>, <<8484, 8484>>,
    <<8486, 8486>>, <<8488, 8488>>, <<8490, 8493>>, <<8495, 8505>>, <<8508, 8511>>,
    <<8517, 8521>>, <<8526, 8526>>, <<8528, 8585>>, <<9312, 9371>>, <<9450, 9471>>,
    <<10102, 10131>>, <<11264, 11492>>, <<11499, 11502>>, <<11506, 11507>>,
    <<11517, 11517>>, <<11520, 11557>>, <<11559, 11559>>, <<11565, 11565>>,
    <<11568, 11623>>, <<11631, 11631>>, <<11648, 11670>>, <<11680, 11686>>,
    <<11688, 11694>>, <<11696, 11702>>, <<11704, 11710>>, <<11712, 11718>>,
    <<11720, 11726>>, <<11728, 11734>>, <<11736, 11742>>, <<11823, 11823>>,
    <<12293, 12295>>, <<12321, 12329>>, <<12337, 12341>>, <<12344, 12348>>,
    <<12353, 12438>>, <<12445, 12447>>, <<12449, 12538>>, <<12540, 12543>>,
    <<12549, 12591>>, <<12593, 12686>>, <<12690, 12693>>, <<12704, 12735>>,
    <<12784, 12799>>, <<12832, 12841>>, <<12872, 12879>>, <<12881, 12895>>,
    <<12928, 12937>>, <<12977, 12991>>, <<13312, 19903>>, <<19968, 42124>>,
    <<42192, 42237>>, <<42240, 42508>>, <<42512, 42539>>, <<42560, 42606>>,
    <<42623, 42653>>, <<42656, 42735>>, <<42775, 42783>>, <<42786, 42888>>,
    <<42891, 42954>>, <<42960, 42961>>, <<42963, 42963>>, <<42965, 42969>>,
    <<42994, 43009>>, <<43011, 43013>>, <<43015, 43018>>, <<43020, 43042>>,
    <<43056, 43061>>, <<43072, 43123>>, <<43138, 43187>>, <<43216, 43225>>,
    <<43250, 43255>>, <<43259, 43259>>, <<43261, 43262>>, <<43264, 43301>>,
    <<43312, 43334>>, <<43360, 43388>>, <<43396, 43442>>, <<43471, 43481>>,
    <<43488, 43492>>, <<43494, 43518>>, <<43520, 43560>>, <<43584, 43586>>,
    <<43588, 43595>>, <<43600, 43609>>, <<43616, 43638>>, <<43642, 43642>>,
    <<43646, 43695>>, <<43697, 43697>>, <<43701, 43702>>, <<43705, 43709>>,
    <<43712, 43712>>, <<43714, 43714>>, <<43739, 43741>>, <<43744, 43754>>,
    <<43762, 43764>>, <<43777, 43782>>, <<43785, 43790>>, <<43793, 43798>>,
    <<43808, 43814>>, <<43816, 43822>>, <<43824, 43866>>, <<43868, 43881>>,
    <<43888, 44002>>, <<44016, 44025>>, <<44032, 55203>>, <<55216, 55238>>,
    <<55243, 55291>>, <<63744, 64109>>, <<64112, 64217>>, <<64256, 64262>>,
    <<64275, 64279>>, <<64285, 64285>>, <<64287, 64296>>, <<64298, 64310>>,
    <<64312, 64316>>, <<64318, 64318>>, <<64320, 64321>>, <<64323, 64324>>,
    <<64326, 64433>>, <<64467, 64829>>, <<64848, 64911>>, <<64914, 64967>>,
    <<65008, 65019>>, <<65136, 65140>>, <<65142, 65276>>, <<65296, 65305>>,
    <<65313, 65338>>, <<65345, 65370>>, <<65382, 65470>>, <<65474, 65479>>,
    <<65482, 65487>>, <<65490, 65495>>, <<65498, 65500>>, <<65536, 65547>>,
    <<65549, 65574>>, <<65576, 65594>>, <<65596, 65597>>, <<65599, 65613>>,
    <<65616, 65629>>, <<65664, 65786>>, <<65799, 65843>>, <<65856, 65912>>,
    <<65930, 65931>>, <<66176, 66204>>, <<66208, 66256>>, <<66273, 66299>>,
    <<66304, 66339>>, <<66349, 66378>>, <<66384, 66421>>, <<66432, 66461>>,
    <<66464, 66499>>, <<66504, 66511>>, <<66513, 66517>>, <<66560, 66717>>,
    <<66720, 66729>>, <<66736, 66771>>, <<66776, 66811>>, <<66816, 66855>>,
    <<66864, 66915>>, <<66928, 66938>>, <<66940, 66954>>, <<66956, 66962>>,
    <<66964, 66965>>, <<66967, 66977>>, <<66979, 66993>>, <<66995, 67001>>,
    <<67003, 67004>>, <<67072, 67382>>, <<67392, 67413>>, <<67424, 67431>>,
    <<67456, 67461>>, <<67463, 67504>>, <<67506, 67514>>, <<67584, 67589>>,
    <<67592, 67592>>, <<67594, 67637>>, <<67639, 67640>>, <<67644, 67644>>,
    <<67647, 67669>>, <<67672, 67702>>, <<67705, 67742>>, <<67751, 67759>>,
    <<67808, 67826>>, <<67828, 67829>>, <<67835, 67867>>, <<67872, 67897>>,
    <<67968, 68023>>, <<68028, 68047>>, <<68050, 68096>>, <<68112, 68115>>,
    <<68117, 68119>>, <<68121, 68149>>, <<68160, 68168>>, <<68192, 68222>>,
    <<68224, 68255>>, <<68288, 68295>>, <<68297, 68324>>, <<68331, 68335>>,
    <<68352, 68405>>, <<68416, 68437>>, <<68440, 68466>>, <<68472, 68497>>,
    <<68521, 68527>>, <<68608, 68680>>, <<68736, 68786>>, <<68800, 68850>>,
    <<68858, 68899>>, <<68912, 68921>>, <<69216, 69246>>, <<69248, 69289>>,
    <<69296, 69297>>, <<69376, 69415>>, <<69424, 69445>>, <<69457, 69460>>,
    <<69488, 69505>>, <<69552, 69579>>, <<69600, 69622>>, <<69635, 69687>>,
    <<69714, 69743>>, <<69745, 69746>>, <<69749, 69749>>, <<69763, 69807>>,
    <<69840, 69864>>, <<69872, 69881>>, <<69891, 69926>>, <<69942, 69951>>,
    <<69956, 69956>>, <<69959, 69959>>, <<69968, 70002>>, <<70006, 70006>>,
    <<70019, 70066>>, <<70081, 70084>>, <<70096, 70106>>, <<70108, 70108>>,
    <<70113, 70132>>, <<70144, 70161>>, <<70163, 70187>>, <<70272, 70278>>,
    <<70280, 70280>>, <<70282, 70285>>, <<70287, 70301>>, <<70303, 70312>>,
    <<70320, 70366>>, <<70384, 70393>>, <<70405, 70412>>, <<70415, 70416>>,
    <<70419, 70440>>, <<70442, 70448>>, <<70450, 70451>>, <<70453, 70457>>,
    <<70461, 70461>>, <<70480, 70480>>, <<70493, 70497>>, <<70656, 70708>>,
    <<70727, 70730>>, <<70736, 70745>>, <<70751, 70753>>, <<70784, 70831>>,
    <<70852, 70853>>, <<70855, 70855>>, <<70864, 70873>>, <<71040, 71086>>,
    <<71128, 71131>>, <<71168, 71215>>, <<71236, 71236>>, <<71248, 71257>>,
    <<71296, 71338>>, <<71352, 71352>>, <<71360, 71369>>, <<71424, 71450>>,
    <<71472, 71483>>, <<71488, 71494>>, <<71680, 71723>>, <<71840, 71922>>,
    <<71935, 71942>>, <<71945, 71945>>, <<71948, 71955>>, <<71957, 71958>>,
    <<71960, 71983>>, <<71999, 71999>>, <<72001, 72001>>, <<72016, 72025>>,
    <<72096, 72103>>, <<72106, 72144>>, <<72161, 72161>>, <<72163, 72163>>,
    <<72192, 72192>>, <<72203, 72242>>, <<72250, 72250>>, <<72272, 72272>>,
    <<72284, 72329>>, <<72349, 72349>>, <<72368, 72440>>, <<72704, 72712>>,
    <<72714, 72750>>, <<72768, 72768>>, <<72784, 72812>>, <<72818, 72847>>,
    <<72960, 72966>>, <<72968, 72969>>, <<72971, 73008>>, <<73030, 73030>>,
    <<73040, 73049>>, <<73056, 73061>>, <<73063, 73064>>, <<73066, 73097>>,
    <<73112, 73112>>, <<73120, 73129>>, <<73440, 73458>>, <<73648, 73648>>,
    <<73664, 73684>>, <<73728, 74649>>, <<74752, 74862>>, <<74880, 75075>>,
    <<77712, 77808>>, <<77824, 78894>>, <<82944, 83526>>, <<92160, 92728>>,
    <<92736, 92766>>, <<92768, 92777>>, <<92784, 92862>>, <<92864, 92873>>,
    <<92880, 92909>>, <<92928, 92975>>, <<92992, 92995>>, <<93008, 93017>>,
    <<93019, 93025>>, <<93027, 93047>>, <<93053, 93071>>, <<93760, 93846>>,
    <<93952, 94026>>, <<94032, 94032>>, <<94099, 94111>>, <<94176, 94177>>,
    <<94179, 94179>>, <<94208, 100343>>, <<100352, 101589>>, <<101632, 101640>>,
    <<110576, 110579>>, <<110581, 110587>>, <<110589, 110590>>, <<110592, 110882>>,
    <<110928, 110930>>, <<110948, 110951>>, <<110960, 111355>>, <<113664, 113770>>,
    <<113776, 113788>>, <<113792, 113800>>, <<113808, 113817>>, <<119520, 119539>>,
    <<119648, 119672>>, <<119808, 119892>>, <<119894, 119964>>, <<119966, 119967>>,
    <<119970, 119970>>, <<119973, 119974>>, <<119977, 119980>>, <<119982, 119993>>,
    <<119995, 119995>>, <<119997, 120003>>, <<120005, 120069>>, <<120071, 120074>>,
    <<120077, 120084>>, <<120086, 120092>>, <<120094, 120121>>, <<120123, 120126>>,
    <<120128, 120132>>, <<120134, 120134>>, <<120138, 120144>>, <<120146, 120485>>,
    <<120488, 120512>>, <<120514, 120538>>, <<120540, 120570>>, <<120572, 120596>>,
    <<120598, 120628>>, <<120630, 120654>>, <<120656, 120686>>, <<120688, 120712>>,
    <<120714, 120744>>, <<120746, 120770>>, <<120772, 120779>>, <<120782, 120831>>,
    <<122624, 122654>>, <<123136, 123180>>, <<123191, 123197>>, <<123200, 123209>>,
    <<123214, 123214>>, <<123536, 123565>>, <<123584, 123627>>, <<123632, 123641>>,
    <<124896, 124902>>, <<124904, 124907>>, <<124909, 124910>>, <<124912, 124926>>,
    <<124928, 125124>>, <<125127, 125135>>, <<125184, 125251>>, <<125259, 125259>>,
    <<125264, 125273>>, <<126065, 126123>>, <<126125, 126127>>, <<126129, 126132>>,
    <<126209, 126253>>, <<126255, 126269>>, <<126464, 126467>>, <<126469, 126495>>,
    <<126497, 126498>>, <<126500, 126500>>, <<126503, 126503>>, <<126505, 126514>>,
    <<126516, 126519>>, <<126521, 126521>>, <<126523, 126523>>, <<126530, 126530>>,
    <<126535, 126535>>, <<126537, 126537>>, <<126539, 126539>>, <<126541, 126543>>,
    <<126545, 126546>>, <<126548, 126548>>, <<126551, 126551>>, <<126553, 126553>>,
    <<126555, 126555>>, <<126557, 126557>>, <<126559, 126559>>, <<126561, 126562>>,
    <<126564, 126564>>, <<126567, 126570>>, <<126572, 126578>>, <<126580, 126583>>,
    <<126585, 126588>>, <<126590, 126590>>, <<126592, 126601>>, <<126603, 126619>>,
    <<126625, 126627>>, <<126629, 126633>>, <<126635, 126651>>, <<127232, 127244>>,
    <<130032, 130041>>, <<131072, 173791>>, <<173824, 177976>>, <<177984, 178205>>,
    <<178208, 183969>>, <<183984, 191456>>, <<194560, 195101>>, <<196608, 201546>> >>

\* str.lower() on one character; the lower case of U+0130 is two characters, i and the
\* combining dot U+0307
lower(c) ==
    IF c = "U+0130" THEN <<"i", "U+0307">>
    ELSE IF c \in DOMAIN ToLower THEN <<ToLower[c]>>
    ELSE IF Len(c) > 1
    THEN CHOOSE l \in {IF \E r \in 1..Len(Lowercase) :
                             /\ Lowercase[r][1] <= n /\ n <= Lowercase[r][2]
                             /\ (n - Lowercase[r][1]) % Lowercase[r][3] = 0
                       THEN <<CharName(n + Lowercase[CHOOSE r \in 1..Len(Lowercase) :
                                              /\ Lowercase[r][1] <= n /\ n <= Lowercase[r][2]
                                              /\ (n - Lowercase[r][1]) % Lowercase[r][3] = 0][4])>>
                       ELSE <<c>> : n \in {CodePoint(c)}} : TRUE
    ELSE <<c>>

\* a cased character that is not case-ignorable
IsCased(c) ==
    \/ c \in Range(UpperLetters) \/ c \in Range(LowerLetters)
    \/ c \in Range(<<"ª","µ","º","À","Á","Â","Ã","Ä","Å","Æ","Ç","È","É","Ê","Ë","Ì","Í","Î","Ï","Ð","Ñ","Ò","Ó","Ô","Õ","Ö","Ø","Ù","Ú","Û","Ü","Ý","Þ","ß","à","á","â","ã","ä","å","æ","ç","è","é","ê","ë","ì","í","î","ï","ð","ñ","ò","ó","ô","õ","ö","ø","ù","ú","û","ü","ý","þ","ÿ">>)
    \/ Len(c) > 1 /\ \E n \in {CodePoint(c)} : InRanges(n, Cased)

\* a case-ignorable character
IsCaseIgnorable(c) ==
    \/ c \in Range(<<"'",".",":","^","U+0060","¨","­","¯","´","·","¸">>)
    \/ Len(c) > 1 /\ \E n \in {CodePoint(c)} : InRanges(n, CaseIgnorable)

\* str.lower(): the lower cases of the characters, one after the other; a capital sigma
\* (U+03A3) becomes the final sigma (U+03C2) where, case-ignorable characters aside, a
\* cased character stands before it and none stands after it
str_lower(s) ==
    LET final_sigma(k) ==
            /\ \E a \in 1..(k - 1) :
                   /\ IsCased(s[a])
                   /\ \A b \in (a + 1)..(k - 1) : IsCaseIgnorable(s[b])
            /\ \A a \in (k + 1)..Len(s) :
                   \/ ~IsCased(s[a])
                   \/ \E b \in (k + 1)..(a - 1) : ~IsCaseIgnorable(s[b])
        lowered(k) == IF s[k] = "U+03A3" /\ final_sigma(k) THEN <<"U+03C2">>
                      ELSE lower(s[k])
    IN  IF \A k \in 1..Len(s) : s[k] # "U+0130"
        THEN [k \in 1..Len(s) |-> lowered(k)[1]]
        ELSE LET dotted(k) == Cardinality({q \in 1..k : s[q] = "U+0130"})
                 start(k)  == k + dotted(k - 1)
             IN  [j \in 1..(Len(s) + dotted(Len(s))) |->
                     LET k == CHOOSE q \in 1..Len(s) :
                                  start(q) <= j /\ j < start(q) + Len(lowered(q))
                     IN  lowered(k)[j - start(k) + 1]]

\* the character re.IGNORECASE compares in place of c in a str pattern: the lower case
\* in one character, which for U+0130 is i, with the two further equivalences that reach
\* ASCII, U+0131 (dotless i) with i and U+017F (long s) with s
IgnoreCase(c) ==
    IF c \in {"U+0130", "U+0131"} THEN "i"
    ELSE IF c = "U+017F" THEN "s"
    ELSE lower(c)[1]

\* \s of the re module in a str pattern, and the characters str.strip() removes:
\* U+0009..U+000D, U+001C..U+001F, the space, U+0085, U+00A0 and the blanks beyond Latin-1
IsSpace(c) ==
    c \in {"\t", "\n", "", "\f", "\r", "", "", "", "", " ", "", " ", "U+1680",
         "U+2000", "U+2001", "U+2002", "U+2003", "U+2004", "U+2005", "U+2006",
         "U+2007", "U+2008", "U+2009", "U+200A", "U+2028", "U+2029", "U+202F",
         "U+205F", "U+3000"}

\* [A-Z] under re.IGNORECASE in a str pattern: the ASCII letters and the four characters
\* whose case folding is an ASCII letter
IsLetter(c) ==
    \/ c \in Range(UpperLetters) \/ c \in Range(LowerLetters)
    \/ c \in {"U+0130", "U+0131", "U+017F", "U+212A"}

\* \w of the re module in a str pattern: a letter or a number of Unicode, or the underscore
IsWordChar(c) ==
    \/ c \in Range(UpperLetters) \/ c \in Range(LowerLetters) \/ c \in Range(Digits)
    \/ c = "_"
    \/ c \in Range(<<"ª","²","³","µ","¹","º","¼","½","¾","À","Á","Â","Ã","Ä","Å","Æ","Ç","È","É","Ê","Ë","Ì","Í","Î","Ï","Ð","Ñ","Ò","Ó","Ô","Õ","Ö","Ø","Ù","Ú","Û","Ü","Ý","Þ","ß","à","á","â","ã","ä","å","æ","ç","è","é","ê","ë","ì","í","î","ï","ð","ñ","ò","ó","ô","õ","ö","ø","ù","ú","û","ü","ý","þ","ÿ">>)
    \/ Len(c) > 1 /\ \E n \in {CodePoint(c)} : InRanges(n, Alphanumeric)

\* str.strip(): the text between the first and the last non-space character
strip(s) ==
    IF \A k \in 1..Len(s) : IsSpace(s[k]) THEN <<>>
    ELSE SubSeq(s,
                CHOOSE a \in 1..Len(s) :
                    ~IsSpace(s[a]) /\ \A b \in 1..(a - 1) : IsSpace(s[b]),
                CHOOSE a \in 1..Len(s) :
                    ~IsSpace(s[a]) /\ \A b \in (a + 1)..Len(s) : IsSpace(s[b]))

----------------------------------------------------------------------------
(* _parse_analysis_response: extract_field and its regular expression       *)
(*   rf"{field_name}:\s*(.+?)(?=\n[A-Z\s]+:|$)"  with DOTALL | IGNORECASE    *)
(* Positions are 1-based; position Len(text)+1 is the end of the text.       *)

NotSpecified == <<"N","o","t"," ","s","p","e","c","i","f","i","e","d">>

\* the literal  {field_name}:  matches at position p under re.IGNORECASE
LabelAt(text, field_name, p) ==
    /\ p + Len(field_name) <= Len(text)
    /\ \A k \in 1..Len(field_name) :
          IgnoreCase(text[p + k - 1]) = IgnoreCase(field_name[k])
    /\ text[p + Len(field_name)] = ":"

\* the lookahead (?=\n[A-Z\s]+:|$) holds at position e; without MULTILINE, $ is the
\* end of the text or the position of a final newline
Lookahead(text, e) ==
    \/ /\ e <= Len(text)
       /\ text[e] = "\n"
       /\ \E c \in (e + 2)..Len(text) :
             /\ text[c] = ":"
             /\ \A k \in (e + 1)..(c - 1) : IsLetter(text[k]) \/ IsSpace(text[k])
    \/ e = Len(text) + 1
    \/ e = Len(text) /\ text[e] = "\n"

\* the lengths \s* can take at position j
SpaceRuns(text, j) ==
    {w \in 0..(Len(text) + 1 - j) : \A k \in j..(j + w - 1) : IsSpace(text[k])}

\* the ends (.+?) can take when it starts at s: at least one character, any character
\* (DOTALL), followed by the lookahead
GroupEnds(text, s) == {e \in (s + 1)..(Len(text) + 1) : Lookahead(text, e)}

\* the pattern matches with the label at p
MatchesAt(text, field_name, p) ==
    /\ LabelAt(text, field_name, p)
    /\ \E w \in SpaceRuns(text, p + Len(field_name) + 1) :
          GroupEnds(text, p + Len(field_name) + 1 + w) # {}

\* group(1) of the match with the label at p: \s* is greedy (the longest run that
\* still lets the rest match), (.+?) is lazy (the nearest end)
GroupAt(text, field_name, p) ==
    LET j  == p + Len(field_name) + 1
        ws == {w \in SpaceRuns(text, j) : GroupEnds(text, j + w) # {}}
        w  == CHOOSE a \in ws : \A b \in ws : a >= b
        es == GroupEnds(text, j + w)
        e  == CHOOSE a \in es : \A b \in es : a <= b
    IN  SubSeq(text, j + w, e - 1)

\* what stands for an AttributeError raised by match.group on None
RaisedAttributeError == <<"AttributeError">>

\* mutation of extract_field: match.group(1).strip() without the test of match
extract_field_unguarded(field_name, text) ==
    LET starts == {p \in 1..Len(text) : MatchesAt(text, field_name, p)}
    IN  IF starts = {} THEN RaisedAttributeError
        ELSE strip(GroupAt(text, field_name, CHOOSE a \in starts : \A b \in starts : a <= b))

\* re.search: the leftmost position where the pattern matches
extract_field(field_name, text) ==
    LET starts == {p \in 1..Len(text) : MatchesAt(text, field_name, p)}
    IN  IF starts = {} THEN NotSpecified
        ELSE strip(GroupAt(text, field_name, CHOOSE a \in starts : \A b \in starts : a <= b))

CLASSIFICATION == <<"C","L","A","S","S","I","F","I","C","A","T","I","O","N">>

NOTICE_SENT == <<"N","O","T","I","C","E"," ","S","E","N","T">>

FIRM_FAULT == <<"F","I","R","M"," ","F","A","U","L","T">>

FIRM_FAULT_EXPLANATION == <<"F","I","R","M"," ","F","A","U","L","T"," ","E","X","P","L","A","N","A","T","I","O","N">>

CURRENT_STATUS == <<"C","U","R","R","E","N","T"," ","S","T","A","T","U","S">>

RECOMMENDATION == <<"R","E","C","O","M","M","E","N","D","A","T","I","O","N">>

REASONING == <<"R","E","A","S","O","N","I","N","G">>

KEY_EVIDENCE == <<"K","E","Y"," ","E","V","I","D","E","N","C","E">>

\* dict.get(key, default)
get(d, key, default) == IF key \in DOMAIN d THEN d[key] ELSE default

parse_analysis_response(text, case_data) ==
    [case_name              |-> get(case_data, "case_name", "Unknown"),
     pdf_filename           |-> get(case_data, "pdf_filename", "Unknown"),
     classification         |-> extract_field(CLASSIFICATION, text),
     notice_sent            |-> extract_field(NOTICE_SENT, text),
     firm_fault             |-> extract_field(FIRM_FAULT, text),
     firm_fault_explanation |-> extract_field(FIRM_FAULT_EXPLANATION, text),
     current_status         |-> extract_field(CURRENT_STATUS, text),
     recommendation         |-> extract_field(RECOMMENDATION, text),
     reasoning              |-> extract_field(REASONING, text),
     key_evidence           |-> extract_field(KEY_EVIDENCE, text),
     full_analysis          |-> text]

----------------------------------------------------------------------------
(* SOPRuleEngine: the indicator patterns, each  \b(alt|alt|...)\b  searched *)
(* in text.lower()                                                          *)

e_special_indicators == <<
    [category |-> "yelling",
     alternatives |-> {<<"y","e","l","l">>, <<"s","c","r","e","a","m">>, <<"s","h","o","u","t">>, <<"r","a","i","s","e","d"," ","v","o","i","c","e">>}],
    [category |-> "profanity",
     alternatives |-> {<<"f","u","c","k">>, <<"s","h","i","t">>, <<"d","a","m","n">>, <<"b","i","t","c","h">>, <<"a","s","s","h","o","l","e">>,
                       <<"p","r","o","f","a","n","i","t","y">>, <<"c","u","r","s","i","n","g">>, <<"v","u","l","g","a","r">>}],
    [category |-> "threats_lawsuit",
     alternatives |-> {<<"l","a","w","s","u","i","t">>, <<"s","u","e">>, <<"l","e","g","a","l"," ","a","c","t","i","o","n">>, <<"t","a","k","i","n","g"," ","y","o","u"," ","t","o"," ","c","o","u","r","t">>}],
    [category |-> "threats_bar",
     alternatives |-> {<<"s","t","a","t","e"," ","b","a","r">>, <<"b","a","r"," ","c","o","m","p","l","a","i","n","t">>, <<"r","e","p","o","r","t"," ","y","o","u">>, <<"f","i","l","e"," ","c","o","m","p","l","a","i","n","t">>}],
    [category |-> "threats_physical",
     alternatives |-> {<<"p","h","y","s","i","c","a","l">>, <<"h","a","r","m">>, <<"h","u","r","t">>, <<"v","i","o","l","e","n","c","e">>, <<"b","e","a","t">>}],
    [category |-> "threats_review",
     alternatives |-> {<<"b","a","d"," ","r","e","v","i","e","w">>, <<"y","e","l","p">>, <<"g","o","o","g","l","e"," ","r","e","v","i","e","w">>,
                       <<"d","e","s","t","r","o","y"," ","y","o","u","r"," ","r","e","p","u","t","a","t","i","o","n">>}],
    [category |-> "accusations",
     alternatives |-> {<<"f","r","a","u","d">>, <<"t","h","e","f","t">>, <<"s","t","e","a","l">>, <<"c","r","i","m","i","n","a","l">>, <<"s","c","a","m">>,
                       <<"c","o","n"," ","a","r","t","i","s","t">>}],
    [category |-> "hostile_conduct",
     alternatives |-> {<<"p","o","u","n","d">>, <<"s","l","a","m">>, <<"a","g","g","r","e","s","s","i","v","e">>, <<"i","n","t","i","m","i","d","a","t","i","n","g">>, <<"h","o","s","t","i","l","e">>}],
    [category |-> "extreme_escalation",
     alternatives |-> {<<"o","n","l","y"," ","s","p","e","a","k"," ","t","o">>, <<"o","n","l","y"," ","t","a","l","k"," ","t","o">>, <<"r","e","f","u","s","e"," ","t","o"," ","s","p","e","a","k">>,
                       <<"h","a","n","g","i","n","g"," ","u","p">>, <<"h","u","n","g"," ","u","p"," ","o","n">>}] >>

\* call(ed)? (again|multiple times|daily|constantly) is written out
special_indicators == <<
    [category |-> "excessive_contact",
     alternatives |-> {<<"c","a","l","l"," ","a","g","a","i","n">>, <<"c","a","l","l"," ","m","u","l","t","i","p","l","e"," ","t","i","m","e","s">>, <<"c","a","l","l"," ","d","a","i","l","y">>,
                       <<"c","a","l","l"," ","c","o","n","s","t","a","n","t","l","y">>, <<"c","a","l","l","e","d"," ","a","g","a","i","n">>, <<"c","a","l","l","e","d"," ","m","u","l","t","i","p","l","e"," ","t","i","m","e","s">>,
                       <<"c","a","l","l","e","d"," ","d","a","i","l","y">>, <<"c","a","l","l","e","d"," ","c","o","n","s","t","a","n","t","l","y">>, <<"e","x","c","e","s","s","i","v","e"," ","c","o","n","t","a","c","t">>}],
    [category |-> "dissatisfaction",
     alternatives |-> {<<"d","i","s","s","a","t","i","s","f","i","e","d">>, <<"u","n","h","a","p","p","y">>, <<"f","r","u","s","t","r","a","t","e","d">>, <<"c","o","n","c","e","r","n","e","d">>,
                       <<"w","o","r","r","i","e","d">>, <<"n","o","t"," ","s","a","t","i","s","f","i","e","d">>}],
    [category |-> "reassurance_seeking",
     alternatives |-> {<<"a","n","y","t","h","i","n","g"," ","h","a","p","p","e","n","i","n","g">>, <<"a","n","y"," ","u","p","d","a","t","e">>, <<"w","h","a","t","'","s"," ","g","o","i","n","g"," ","o","n">>,
                       <<"w","h","e","n"," ","w","i","l","l">>}],
    [category |-> "complaints",
     alternatives |-> {<<"c","o","m","p","l","a","i","n","t">>, <<"c","o","m","p","l","a","i","n">>, <<"n","o","t"," ","h","a","p","p","y"," ","w","i","t","h">>,
                       <<"i","s","s","u","e"," ","w","i","t","h"," ","s","e","r","v","i","c","e">>}],
    [category |-> "scope_expansion",
     alternatives |-> {<<"a","l","s","o"," ","n","e","e","d">>, <<"i","n"," ","a","d","d","i","t","i","o","n">>, <<"c","a","n"," ","y","o","u"," ","a","l","s","o">>,
                       <<"o","u","t","s","i","d","e"," ","o","f"," ","c","o","n","t","r","a","c","t">>}],
    [category |-> "management_escalation",
     alternatives |-> {<<"s","p","e","a","k"," ","w","i","t","h"," ","m","a","n","a","g","e","r">>, <<"t","a","l","k"," ","t","o"," ","a","t","t","o","r","n","e","y">>, <<"e","s","c","a","l","a","t","e">>,
                       <<"s","o","m","e","o","n","e"," ","i","n"," ","c","h","a","r","g","e">>}] >>

\* \b at position p: exactly one of the characters before and at p is a word character
WordBoundary(text, p) ==
    (p >= 2 /\ IsWordChar(text[p - 1])) # (p <= Len(text) /\ IsWordChar(text[p]))

PhraseAt(text, phrase, p) ==
    /\ p + Len(phrase) - 1 <= Len(text)
    /\ SubSeq(text, p, p + Len(phrase) - 1) = phrase

\* re.search(r"\b(alt|...)\b", text) finds a match
pattern_search(alternatives, text) ==
    \E p \in 1..Len(text) :
        /\ WordBoundary(text, p)
        /\ \E a \in alternatives : PhraseAt(text, a, p) /\ WordBoundary(text, p + Len(a))

\* the loop over indicators.items(): the categories whose pattern is found, in dict order
matched_categories(indicators, text) ==
    LET text_lower == str_lower(text)
        hits == SelectSeq(indicators, LAMBDA ind : pattern_search(ind.alternatives, text_lower))
    IN  [k \in 1..Len(hits) |-> hits[k].category]

\* the names bound at module level in behavior_classifier.py; "import re" stands inside
\* _parse_analysis_response and binds re only there
ModuleGlobals == {"os", "Dict", "List", "Optional", "Anthropic",
                  "BehaviorClassifier", "SOPRuleEngine"}

\* a call of a SOPRuleEngine check: re.search raises NameError when re is not bound
rule_check(indicators, text) ==
    IF "re" \in ModuleGlobals
    THEN [raised |-> FALSE,
          value |-> <<Len(matched_categories(indicators, text)) > 0,
                      matched_categories(indicators, text)>>]
    ELSE [raised |-> TRUE, exception |-> "NameError"]

has_e_special_indicators(text) == rule_check(e_special_indicators, text)

has_special_indicators(text) == rule_check(special_indicators, text)

----------------------------------------------------------------------------
(* batch_analyze and the part of main() around it *)

NA == <<"N","/","A">>

ErrorPrefix == <<"E","r","r","o","r",":"," ">>

\* mutation of error_result: the message of the exception is left out
error_result_without_message(case_data, msg) ==
    [case_name              |-> get(case_data, "case_name", "Unknown"),
     pdf_filename           |-> get(case_data, "pdf_filename", "Unknown"),
     classification         |-> <<"E","r","r","o","r"," ","d","u","r","i","n","g"," ","a","n","a","l","y","s","i","s">>,
     notice_sent            |-> NA,
     firm_fault             |-> NA,
     firm_fault_explanation |-> NA,
     current_status         |-> <<"E","r","r","o","r">>,
     recommendation         |-> <<"M","a","n","u","a","l"," ","r","e","v","i","e","w"," ","r","e","q","u","i","r","e","d">>,
     reasoning              |-> <<"A","u","t","o","m","a","t","e","d"," ","a","n","a","l","y","s","i","s"," ","f","a","i","l","e","d">>,
     key_evidence           |-> NA,
     full_analysis          |-> ErrorPrefix \o msg]

\* the dict appended in the except branch; msg is str(e)
error_result(case_data, msg) ==
    [case_name              |-> get(case_data, "case_name", "Unknown"),
     pdf_filename           |-> get(case_data, "pdf_filename", "Unknown"),
     classification         |-> <<"E","r","r","o","r"," ","d","u","r","i","n","g"," ","a","n","a","l","y","s","i","s">>,
     notice_sent            |-> NA,
     firm_fault             |-> NA,
     firm_fault_explanation |-> ErrorPrefix \o msg,
     current_status         |-> <<"E","r","r","o","r">>,
     recommendation         |-> <<"M","a","n","u","a","l"," ","r","e","v","i","e","w"," ","r","e","q","u","i","r","e","d">>,
     reasoning              |-> <<"A","u","t","o","m","a","t","e","d"," ","a","n","a","l","y","s","i","s"," ","f","a","i","l","e","d">>,
     key_evidence           |-> NA,
     full_analysis          |-> ErrorPrefix \o msg]

\* str(e) of the IndexError raised by response.content[0] on an empty content list
IndexErrorMessage == <<"l","i","s","t"," ","i","n","d","e","x"," ","o","u","t"," ","o","f"," ","r","a","n","g","e">>

total == Len(cases)

\* mutation of ForNext: the index is counted from 0, as enumerate(cases) would
ForNextFromZero ==
    /\ pc = "for"
    /\ i < total
    /\ i' = i + 1
    /\ progress_calls' = IF progress_callback
                         THEN Append(progress_calls, <<i, total>>)
                         ELSE progress_calls
    /\ pc' = "try"
    /\ UNCHANGED <<cases, progress_callback, results, oracle_calls, outcomes,
                   analysis_results, report, exit_code, response_text, parsed>>
    /\ UNCHANGED extractor_vars

\* for i, case_data in enumerate(cases, 1): the next case, and the callback before it
ForNext ==
    /\ pc = "for"
    /\ i < total
    /\ i' = i + 1
    /\ progress_calls' = IF progress_callback
                         THEN Append(progress_calls, <<i + 1, total>>)
                         ELSE progress_calls
    /\ pc' = "try"
    /\ UNCHANGED <<cases, progress_callback, results, oracle_calls, outcomes,
                   analysis_results, report, exit_code, response_text, parsed>>
    /\ UNCHANGED extractor_vars

\* analyze_client up to self.client.messages.create: the request is issued
CallOracle ==
    /\ pc = "try"
    /\ oracle_calls' = Append(oracle_calls, i)
    /\ pc' = "await"
    /\ UNCHANGED <<cases, progress_callback, i, results, progress_calls, outcomes,
                   analysis_results, report, exit_code, response_text, parsed>>
    /\ UNCHANGED extractor_vars

\* the call returns a reply with text: the reply is parsed and the result appended
OracleReplies(text) ==
    /\ pc = "await"
    /\ results' = Append(results, parse_analysis_response(text, cases[i]))
    /\ outcomes' = Append(outcomes, [kind |-> "reply", text |-> text])
    /\ pc' = "for"
    /\ UNCHANGED <<cases, progress_callback, i, progress_calls, oracle_calls,
                   analysis_results, report, exit_code, response_text, parsed>>
    /\ UNCHANGED extractor_vars

\* the call returns a reply whose content list is empty: response.content[0] raises
\* IndexError, which the except branch turns into an error result
OracleRepliesEmpty ==
    /\ pc = "await"
    /\ results' = Append(results, error_result(cases[i], IndexErrorMessage))
    /\ outcomes' = Append(outcomes, [kind |-> "empty", text |-> <<>>])
    /\ pc' = "for"
    /\ UNCHANGED <<cases, progress_callback, i, progress_calls, oracle_calls,
                   analysis_results, report, exit_code, response_text, parsed>>
    /\ UNCHANGED extractor_vars

\* mutation of OracleRaises: the failed call is made again for the same case
OracleRaisesRetries(msg) ==
    /\ pc = "await"
    /\ outcomes' = Append(outcomes, [kind |-> "raise", text |-> msg])
    /\ pc' = "try"
    /\ UNCHANGED <<cases, progress_callback, i, results, progress_calls, oracle_calls,
                   analysis_results, report, exit_code, response_text, parsed>>
    /\ UNCHANGED extractor_vars

\* mutation of OracleRaises: the failing case is skipped, nothing is appended
OracleRaisesSkips(msg) ==
    /\ pc = "await"
    /\ outcomes' = Append(outcomes, [kind |-> "raise", text |-> msg])
    /\ pc' = "for"
    /\ UNCHANGED <<cases, progress_callback, i, results, progress_calls, oracle_calls,
                   analysis_results, report, exit_code, response_text, parsed>>
    /\ UNCHANGED extractor_vars

\* the call raises an Exception with message msg: the except branch
OracleRaises(msg) ==
    /\ pc = "await"
    /\ results' = Append(results, error_result(cases[i], msg))
    /\ outcomes' = Append(outcomes, [kind |-> "raise", text |-> msg])
    /\ pc' = "for"
    /\ UNCHANGED <<cases, progress_callback, i, progress_calls, oracle_calls,
                   analysis_results, report, exit_code, response_text, parsed>>
    /\ UNCHANGED extractor_vars

\* the loop is exhausted: return results, bound to analysis_results in main
Return ==
    /\ pc = "for"
    /\ i = total
    /\ analysis_results' = <<results>>
    /\ pc' = "returned"
    /\ UNCHANGED <<cases, progress_callback, i, results, progress_calls, oracle_calls,
                   outcomes, report, exit_code, response_text, parsed>>
    /\ UNCHANGED extractor_vars

\* main, step 3: generate_spreadsheet(analysis_results, args.output) and the summary run
\* without an exception, then the normal end
GenerateSpreadsheet ==
    /\ pc = "returned"
    /\ report' = analysis_results
    /\ exit_code' = <<0>>
    /\ pc' = "done"
    /\ UNCHANGED <<cases, progress_callback, i, results, progress_calls, oracle_calls,
                   outcomes, analysis_results, response_text, parsed>>
    /\ UNCHANGED extractor_vars

\* main, step 3 fails: generate_spreadsheet, or a print around it, raises an Exception
\* (an output path that cannot be written, a cell value openpyxl refuses); the handler of
\* lines 190-195 prints the error and calls sys.exit(1). report holds the results when
\* generate_spreadsheet had been called, and is left as it was otherwise.
GenerateSpreadsheetRaises ==
    /\ pc = "returned"
    /\ report' \in {report, analysis_results}
    /\ exit_code' = <<1>>
    /\ pc' = "error-exit"
    /\ UNCHANGED <<cases, progress_callback, i, results, progress_calls, oracle_calls,
                   outcomes, analysis_results, response_text, parsed>>
    /\ UNCHANGED extractor_vars

\* Ctrl-C inside main's try (lines 134-184). KeyboardInterrupt is no Exception, so neither
\* the except branch of extract_from_folder's loop nor that of batch_analyze catches it;
\* it leaves the function without a return value and main's handler of lines 186-188
\* prints and calls sys.exit(1); results keeps what the abandoned frame held. During
\* step 1 (extract_from_folder), the construction of the classifier and step 2
\* (batch_analyze) no report is written. During step 3, after batch_analyze has returned:
\* the same handler; report holds the results when generate_spreadsheet had been called.
Interrupt ==
    /\ pc \in {"for pdf_file", "BehaviorClassifier", "for", "try", "await", "returned"}
    /\ pc' = "interrupted"
    /\ exit_code' = <<1>>
    /\ report' \in (IF pc = "returned" THEN {report, analysis_results} ELSE {report})
    /\ UNCHANGED <<cases, progress_callback, i, results, progress_calls, oracle_calls,
                   outcomes, analysis_results, response_text, parsed>>
    /\ UNCHANGED extractor_vars

----------------------------------------------------------------------------
(* Inputs *)

\* an event date: a datetime <<year, month, day>> or, for a token _parse_date
\* refused, the token itself; the field not in use is empty
AsDatetime(value) == [datetime |-> value, str |-> <<>>]

AsToken(token) == [datetime |-> <<>>, str |-> token]

\* isinstance(x["date"], datetime)
IsDatetime(date) == date.datetime # <<>>

\* one timeline event of extract_all: the datetime _parse_date read from the token, and
\* content, which is raw_text[:500], the same text here
Event(date, text) == [date |-> AsDatetime(date), content |-> text, raw_text |-> text]

\* what extract_all returns for a document in which no metadata pattern matches: metadata
\* is the empty dict
\* a case whose events hold Excessively-Special indicators
CaseThreat ==
    [case_name |-> "Robert Williams", pdf_filename |-> "williams.pdf",
     metadata |-> <<>>,
     raw_text |-> <<"C","a","s","e",":"," ","R","o","b","e","r","t"," ","W","i","l","l","i","a","m","s","\n","0","3","/","0","4","/","2","0","2","4"," ","-"," ","I"," ","w","i","l","l"," ","s","u","e"," ","y","o","u"," ","a","n","d"," ","r","e","p","o","r","t"," ","y","o","u"," ","t","o"," ","t","h","e"," ","S","t","a","t","e"," ","B","a","r">>,
     timeline_events |->
        <<Event(<<2024, 3, 4>>, <<"I"," ","w","i","l","l"," ","s","u","e"," ","y","o","u"," ","a","n","d"," ","r","e","p","o","r","t"," ","y","o","u"," ","t","o"," ","t","h","e"," ","S","t","a","t","e"," ","B","a","r">>)>>]

\* a case whose events hold Special indicators only
CaseScope ==
    [case_name |-> "Michael Chen", pdf_filename |-> "chen.pdf",
     metadata |-> <<>>,
     raw_text |-> <<"C","a","s","e",":"," ","M","i","c","h","a","e","l"," ","C","h","e","n","\n","0","3","/","0","5","/","2","0","2","4"," ","-"," ","c","a","n"," ","y","o","u"," ","a","l","s","o"," ","h","e","l","p"," ","w","i","t","h"," ","a","n"," ","u","n","r","e","l","a","t","e","d"," ","m","a","t","t","e","r">>,
     timeline_events |->
        <<Event(<<2024, 3, 5>>, <<"c","a","n"," ","y","o","u"," ","a","l","s","o"," ","h","e","l","p"," ","w","i","t","h"," ","a","n"," ","u","n","r","e","l","a","t","e","d"," ","m","a","t","t","e","r">>)>>]

\* a case whose events hold no indicator
CaseQuiet ==
    [case_name |-> "Sarah Johnson", pdf_filename |-> "johnson.pdf",
     metadata |-> <<>>,
     raw_text |-> <<"C","a","s","e",":"," ","S","a","r","a","h"," ","J","o","h","n","s","o","n","\n","0","3","/","0","6","/","2","0","2","4"," ","-"," ","R","e","t","a","i","n","e","r"," ","p","a","y","m","e","n","t"," ","r","e","c","e","i","v","e","d","\n","0","3","/","0","7","/","2","0","2","4"," ","-"," ","B","i","o","m","e","t","r","i","c","s"," ","n","o","t","i","c","e"," ","f","o","r","w","a","r","d","e","d">>,
     timeline_events |->
        <<Event(<<2024, 3, 6>>, <<"R","e","t","a","i","n","e","r"," ","p","a","y","m","e","n","t"," ","r","e","c","e","i","v","e","d">>),
          Event(<<2024, 3, 7>>, <<"B","i","o","m","e","t","r","i","c","s"," ","n","o","t","i","c","e"," ","f","o","r","w","a","r","d","e","d">>)>>]

CaseSet == {CaseThreat, CaseScope, CaseQuiet}

\* a reply in the format the prompt asks for
ReplyFull == <<"C","L","A","S","S","I","F","I","C","A","T","I","O","N",":"," ","E","-","S","p","e","c","i","a","l","\n","\n","N","O","T","I","C","E"," ","S","E","N","T",":"," ","N","o","n","e"," ","s","e","n","t","\n","\n","F","I","R","M"," ","F","A","U","L","T",":"," ","N","o","\n","\n","F","I","R","M"," ","F","A","U","L","T"," ","E","X","P","L","A","N","A","T","I","O","N",":"," ","N","o"," ","f","i","r","m"," ","f","a","u","l","t"," ","i","d","e","n","t","i","f","i","e","d",".","\n","\n","C","U","R","R","E","N","T"," ","S","T","A","T","U","S",":"," ","A","c","t","i","v","e","\n","\n","R","E","C","O","M","M","E","N","D","A","T","I","O","N",":"," ","E","x","e","c","u","t","i","v","e"," ","R","e","v","i","e","w"," ","R","e","q","u","i","r","e","d","\n","\n","R","E","A","S","O","N","I","N","G",":"," ","T","h","r","e","a","t","s",".","\n","\n","K","E","Y"," ","E","V","I","D","E","N","C","E",":"," ","I"," ","w","i","l","l"," ","s","u","e"," ","y","o","u">>

\* a reply without any field
ReplyProse == <<"I"," ","c","a","n","n","o","t"," ","a","s","s","e","s","s"," ","t","h","i","s"," ","c","a","s","e",".">>

\* a reply cut off after the status label
ReplyCut == <<"C","L","A","S","S","I","F","I","C","A","T","I","O","N",":"," ","N","o","r","m","a","l","\n","C","U","R","R","E","N","T"," ","S","T","A","T","U","S",":"," ">>

\* the replies the oracle gives in the batch
BatchReplies == {ReplyFull, ReplyProse, ReplyCut, <<>>}

\* str(e) of the exceptions the oracle call raises in the batch
OracleErrors == {<<"C","o","n","n","e","c","t","i","o","n"," ","e","r","r","o","r",".">>, <<"r","a","t","e","_","l","i","m","i","t","_","e","r","r","o","r">>}

SeqsUpTo(S, n) == UNION {[1..m -> S] : m \in 0..n}

\* no PDFExtractor and no rule engine call is under way
ExtractorIdle ==
    /\ date_str = <<>>
    /\ parsed_date = <<>>
    /\ raw_text = <<>>
    /\ timeline_events = <<>>
    /\ limit = 0
    /\ snippets = <<>>
    /\ timeline_summary = <<>>
    /\ pdf_files = <<>>
    /\ rule_text = <<>>
    /\ rule_result = <<>>

Init ==
    /\ cases \in SeqsUpTo(CaseSet, MaxCases)
    /\ progress_callback \in BOOLEAN
    /\ pc = "for"
    /\ i = 0
    /\ results = <<>>
    /\ progress_calls = <<>>
    /\ oracle_calls = <<>>
    /\ outcomes = <<>>
    /\ analysis_results = <<>>
    /\ report = <<>>
    /\ exit_code = <<>>
    /\ response_text = <<>>
    /\ parsed = <<>>
    /\ ExtractorIdle

Next ==
    \/ ForNext
    \/ CallOracle
    \/ \E text \in BatchReplies : OracleReplies(text)
    \/ OracleRepliesEmpty
    \/ \E msg \in OracleErrors : OracleRaises(msg)
    \/ Return
    \/ GenerateSpreadsheet
    \/ GenerateSpreadsheetRaises
    \/ Interrupt

Spec == Init /\ [][Next]_vars

----------------------------------------------------------------------------
(* The parser on its own: every reply made of at most MaxChunks chunks *)

ReplyChunks ==
    {<<"C","L","A","S","S","I","F","I","C","A","T","I","O","N",":"," ","N","o","r","m","a","l">>,
     <<"\n","c","l","a","s","s","i","f","i","c","a","t","i","o","n",":"," ","s","p","e","c","i","a","l">>,
     <<"\n","F","I","R","M"," ","F","A","U","L","T",":"," ","N","o">>,
     <<"\n","F","i","r","m"," ","F","a","u","l","t"," ","E","x","p","l","a","n","a","t","i","o","n",":"," ","n","o","n","e">>,
     <<"\n","C","U","R","R","E","N","T"," ","S","T","A","T","U","S",":">>,
     <<"\n","R","E","C","O","M","M","E","N","D","A","T","I","O","N",":"," ","C","u","r","e">>,
     <<"\n","R","E","A","S","O","N","I","N","G",":"," ","o","k">>,
     <<"\n","N","o","t","e",":"," ","l","a","t","e">>,
     <<" ","a","s"," ","o","f"," ","3","/","4",".">>,
     <<" ">>,
     <<"\n">>}

RECURSIVE Concat(_)
Concat(ss) == IF ss = <<>> THEN <<>> ELSE Head(ss) \o Concat(Tail(ss))

GeneratedReplies == {Concat(ss) : ss \in SeqsUpTo(ReplyChunks, MaxChunks)}

InitParse ==
    /\ response_text \in GeneratedReplies
    /\ parsed = <<>>
    /\ pc = "parse"
    /\ cases = <<CaseQuiet>>
    /\ progress_callback = FALSE
    /\ i = 1
    /\ results = <<>>
    /\ progress_calls = <<>>
    /\ oracle_calls = <<>>
    /\ outcomes = <<>>
    /\ analysis_results = <<>>
    /\ report = <<>>
    /\ exit_code = <<>>
    /\ ExtractorIdle

\* result = self._parse_analysis_response(response.content[0].text, case_data)
ParseReply ==
    /\ pc = "parse"
    /\ parsed' = <<parse_analysis_response(response_text, cases[i])>>
    /\ pc' = "parsed"
    /\ UNCHANGED <<cases, progress_callback, i, results, progress_calls, oracle_calls,
                   outcomes, analysis_results, report, exit_code, response_text>>
    /\ UNCHANGED extractor_vars

NextParse == ParseReply

SpecParse == InitParse /\ [][NextParse]_vars

----------------------------------------------------------------------------
(* Properties of batch_analyze *)

FailedIn(log, k) == log[k].kind \in {"raise", "empty"}

Failed(k) == FailedIn(outcomes, k)

\* C1: when batch_analyze has returned, its list is as long as the input and its k-th
\* result carries the case_name and pdf_filename of the k-th case, whatever the oracle
\* did for each case
C1_OneResultPerCaseInOrder ==
    pc \in {"returned", "done"} =>
        /\ Len(analysis_results) = 1
        /\ Len(analysis_results[1]) = Len(cases)
        /\ \A k \in 1..Len(cases) :
              /\ analysis_results[1][k].case_name = cases[k].case_name
              /\ analysis_results[1][k].pdf_filename = cases[k].pdf_filename

\* a batch of two different cases has returned, one case failed and one was parsed
C1_Witness ==
    /\ pc = "returned"
    /\ Len(cases) >= 2
    /\ cases[1] # cases[2]
    /\ \E j, k \in 1..Len(outcomes) : outcomes[j].kind = "raise" /\ outcomes[k].kind = "reply"

\* the result of a failed case: Error state, manual review, the message kept
ErrorState(r, msg) ==
    /\ r.classification = <<"E","r","r","o","r"," ","d","u","r","i","n","g"," ","a","n","a","l","y","s","i","s">>
    /\ r.current_status = <<"E","r","r","o","r">>
    /\ r.recommendation = <<"M","a","n","u","a","l"," ","r","e","v","i","e","w"," ","r","e","q","u","i","r","e","d">>
    /\ r.firm_fault_explanation = <<"E","r","r","o","r",":"," ">> \o msg

\* C2: in every step, the results already recorded stay as they are; the result of each
\* failed case is an Error-state result with recommendation manual review and the error
\* message in firm_fault_explanation; and the step that records a failure leaves the
\* loop at its head, ready for the next case
C2_FailureIsolated ==
    [][/\ Len(results') >= Len(results)
       /\ \A k \in 1..Len(results) : results'[k] = results[k]
       /\ \A k \in 1..Len(results') :
             FailedIn(outcomes', k) =>
                ErrorState(results'[k],
                           IF outcomes'[k].kind = "empty" THEN IndexErrorMessage
                           ELSE outcomes'[k].text)
       /\ (Len(outcomes') > Len(outcomes) /\ FailedIn(outcomes', Len(outcomes'))) =>
             (pc' = "for" /\ i' = i /\ Len(results') = i)]_vars

\* the first case failed, and the second case was then analysed and parsed
C2_Witness ==
    /\ Len(results) >= 2
    /\ outcomes[1].kind = "raise"
    /\ outcomes[2].kind = "reply"
    /\ ErrorState(results[1], outcomes[1].text)

\* C8: with a callback supplied, the calls it has received are exactly (1, total),
\* (2, total), ..., (i, total) in this order, the oracle has been called for case k only
\* after the callback for case k, and when the batch returns the callback has been
\* invoked once for each case, failed or not
C8_ProgressBeforeEachCase ==
    progress_callback =>
        /\ progress_calls = [k \in 1..i |-> <<k, Len(cases)>>]
        /\ Len(oracle_calls) <= Len(progress_calls)
        /\ \A k \in 1..Len(oracle_calls) : oracle_calls[k] = k
        /\ pc \in {"returned", "done"} => Len(progress_calls) = Len(cases)

\* a batch of two cases with a callback has returned and one of its cases failed
C8_Witness ==
    /\ progress_callback
    /\ pc = "returned"
    /\ Len(cases) >= 2
    /\ Len(progress_calls) = Len(cases)
    /\ \E k \in 1..Len(outcomes) : Failed(k)

----------------------------------------------------------------------------
(* The fallback classification the specification describes, against the code *)

\* the spellings the prompt gives the classifications and recommendations
ExcessivelySpecial == <<"E","-","S","p","e","c","i","a","l">>

Special == <<"S","p","e","c","i","a","l">>

Unknown == <<"U","n","k","n","o","w","n">>

ExecutiveReview == <<"E","x","e","c","u","t","i","v","e"," ","R","e","v","i","e","w"," ","R","e","q","u","i","r","e","d">>

Cure == <<"S","e","n","d"," ","N","o","t","i","c","e"," ","t","o"," ","C","u","r","e">>

Continue == <<"C","o","n","t","i","n","u","e"," ","r","e","p","r","e","s","e","n","t","a","t","i","o","n">>

ManualReview == <<"M","a","n","u","a","l"," ","r","e","v","i","e","w"," ","r","e","q","u","i","r","e","d">>

\* some event of the case matches an indicator pattern of the family
HasIndicator(indicators, case_data) ==
    \E n \in 1..Len(case_data.timeline_events) :
        matched_categories(indicators, case_data.timeline_events[n].raw_text) # <<>>

\* C3: a case whose oracle call raised and whose events hold an Excessively-Special
\* indicator has classification ExcessivelySpecial and recommendation ExecutiveReview,
\* and never recommendation Continue
C3_FallbackExcessivelySpecial ==
    \A k \in 1..Len(results) :
        (outcomes[k].kind = "raise" /\ HasIndicator(e_special_indicators, cases[k])) =>
            /\ results[k].classification = ExcessivelySpecial
            /\ results[k].recommendation = ExecutiveReview
            /\ results[k].recommendation # Continue

\* C4: a case whose oracle call raised has, with no indicator of either family in its
\* events, classification Unknown and recommendation ManualReview, and with Special
\* indicators only, classification Special and recommendation Cure
C4_FallbackUnknownOrSpecial ==
    \A k \in 1..Len(results) :
        (outcomes[k].kind = "raise" /\ ~HasIndicator(e_special_indicators, cases[k])) =>
            IF HasIndicator(special_indicators, cases[k])
            THEN /\ results[k].classification = Special
                 /\ results[k].recommendation = Cure
            ELSE /\ results[k].classification = Unknown
                 /\ results[k].recommendation = ManualReview

\* the field labels of the prompt, with the keys of the result they fill
Fields == <<
    [key |-> "classification",         label |-> CLASSIFICATION],
    [key |-> "notice_sent",            label |-> NOTICE_SENT],
    [key |-> "firm_fault",             label |-> FIRM_FAULT],
    [key |-> "firm_fault_explanation", label |-> FIRM_FAULT_EXPLANATION],
    [key |-> "current_status",         label |-> CURRENT_STATUS],
    [key |-> "recommendation",         label |-> RECOMMENDATION],
    [key |-> "reasoning",              label |-> REASONING],
    [key |-> "key_evidence",           label |-> KEY_EVIDENCE] >>

\* the label, followed by its colon, stands somewhere in the text, in any casing
LabelOccurs(text, label) == \E p \in 1..Len(text) : LabelAt(text, label, p)

\* a reply without content, or one in which no field label stands
Unparsable(outcome) ==
    \/ outcome.kind = "empty"
    \/ /\ outcome.kind = "reply"
       /\ \A f \in 1..Len(Fields) : ~LabelOccurs(outcome.text, Fields[f].label)

\* C5: for the same case, an oracle call that raised and a reply that is empty or
\* unparsable give results with the same classification and recommendation
C5_SameFallbackForRaiseAndUnparsable ==
    \A j, k \in 1..Len(results) :
        (cases[j] = cases[k] /\ outcomes[j].kind = "raise" /\ Unparsable(outcomes[k])) =>
            /\ results[j].classification = results[k].classification
            /\ results[j].recommendation = results[k].recommendation

\* C7: every result of the list batch_analyze returns has a non-empty current_status
C7_StatusNeverEmpty ==
    pc \in {"returned", "done"} =>
        \A k \in 1..Len(analysis_results[1]) : analysis_results[1][k].current_status # <<>>

\* C9: after an interrupt that arrived when at least one case was completed, no oracle
\* call is in flight and the completed results have been returned to main and handed to
\* the report step
C9_InterruptKeepsCompletedResults ==
    (pc = "interrupted" /\ Len(results) >= 1) =>
        /\ Len(oracle_calls) <= Len(outcomes) + 1
        /\ analysis_results = <<results>>
        /\ report = <<results>>

----------------------------------------------------------------------------
(* Properties of _parse_analysis_response *)

\* C6: the parsed reply has a value for each of the eight fields, each value being the
\* placeholder or a stripped, non-raising extract of the reply, and a field whose label
\* does not occur in the reply has the placeholder "Not specified"
C6_EveryFieldHasValue ==
    pc = "parsed" =>
        \A f \in 1..Len(Fields) :
            LET value == parsed[1][Fields[f].key]
            IN  /\ value # RaisedAttributeError
                /\ \/ value = NotSpecified
                   \/ \E a, b \in 1..Len(response_text) : value = SubSeq(response_text, a, b)
                /\ ~LabelOccurs(response_text, Fields[f].label) => value = NotSpecified

\* a reply was parsed in which one label occurs with a value and another does not occur
C6_Witness ==
    /\ pc = "parsed"
    /\ LabelOccurs(response_text, RECOMMENDATION)
    /\ parsed[1].recommendation = <<"C","u","r","e">>
    /\ ~LabelOccurs(response_text, REASONING)
    /\ parsed[1].reasoning = NotSpecified
    /\ ~LabelOccurs(response_text, NOTICE_SENT)
    /\ parsed[1].notice_sent = NotSpecified

\* the position of the first label of any field at or after position p, or the end
NextLabelFrom(text, p) ==
    LET at == {q \in p..Len(text) :
                  \E f \in 1..Len(Fields) : LabelAt(text, Fields[f].label, q)}
    IN  IF at = {} THEN Len(text) + 1 ELSE CHOOSE a \in at : \A b \in at : a <= b

\* the text between the first occurrence of the label and the next field label
TextAfterLabel(text, label) ==
    LET at == {p \in 1..Len(text) : LabelAt(text, label, p)}
        p  == CHOOSE a \in at : \A b \in at : a <= b
        j  == p + Len(label) + 1
    IN  strip(SubSeq(text, j, NextLabelFrom(text, j) - 1))

\* C10: each field whose label stands in the reply with a non-empty value is parsed to
\* exactly the text between its label and the next field label or the end of the reply
C10_FieldIsTextUpToNextLabel ==
    pc = "parsed" =>
        \A f \in 1..Len(Fields) :
            (/\ LabelOccurs(response_text, Fields[f].label)
             /\ TextAfterLabel(response_text, Fields[f].label) # <<>>) =>
                parsed[1][Fields[f].key] = TextAfterLabel(response_text, Fields[f].label)

----------------------------------------------------------------------------
(* The value sets of classification and recommendation *)

Normal == <<"N","o","r","m","a","l">>

Delinquent == <<"D","e","l","i","n","q","u","e","n","t">>

DelinquentSpecial == <<"D","e","l","i","n","q","u","e","n","t"," ","+"," ","S","p","e","c","i","a","l">>

Terminate == <<"P","r","o","c","e","e","d"," ","w","i","t","h"," ","T","e","r","m","i","n","a","t","i","o","n">>

Classifications == {Normal, Special, ExcessivelySpecial, Delinquent, DelinquentSpecial, Unknown}

Recommendations == {Continue, Cure, Terminate, ExecutiveReview, ManualReview}

\* C11: in every result recorded by the batch, parsed or error result, classification is
\* one of the six classifications and recommendation is one of the five recommendations
C11_ClassificationAndRecommendationInEnum ==
    \A k \in 1..Len(results) :
        /\ results[k].classification \in Classifications
        /\ results[k].recommendation \in Recommendations

----------------------------------------------------------------------------
(* PDFExtractor._parse_date: datetime.strptime with the four formats            *)
(* A datetime is <<year, month, day>>; the formats carry no time of day.        *)

RECURSIVE Number(_)
\* int() of a string of digits
Number(f) ==
    IF f = <<>> THEN 0
    ELSE 10 * Number(SubSeq(f, 1, Len(f) - 1)) + DigitValue(f[Len(f)])

\* the text a strptime directive accepts; [1-9] and the like are ASCII digits, \d is
\* any decimal digit:
\*   %m  1[0-2]|0[1-9]|[1-9]          %d  3[0-1]|[1-2]\d|0[1-9]|[1-9]| [1-9]
\*   %Y  \d\d\d\d                      %y  \d\d
Accepts(directive, f) ==
    CASE directive = "m" ->
            \/ Len(f) = 1 /\ f[1] \in Range(Digits) \ {"0"}
            \/ Len(f) = 2 /\ f[1] = "0" /\ f[2] \in Range(Digits) \ {"0"}
            \/ Len(f) = 2 /\ f[1] = "1" /\ f[2] \in {"0", "1", "2"}
      [] directive = "d" ->
            \/ Len(f) = 1 /\ f[1] \in Range(Digits) \ {"0"}
            \/ Len(f) = 2 /\ f[1] \in {"0", " "} /\ f[2] \in Range(Digits) \ {"0"}
            \/ Len(f) = 2 /\ f[1] \in {"1", "2"} /\ IsDigit(f[2])
            \/ Len(f) = 2 /\ f[1] = "3" /\ f[2] \in {"0", "1"}
      [] directive = "Y" -> Len(f) = 4 /\ \A k \in 1..4 : IsDigit(f[k])
      [] directive = "y" -> Len(f) = 2 /\ \A k \in 1..2 : IsDigit(f[k])

\* mutation of Reads: %y reads the two digits as the year itself
Reads_without_century(directive, f) == Number(SelectSeq(f, IsDigit))

\* the number a directive reads; %y maps 00..68 to 2000..2068 and 69..99 to 1969..1999
Reads(directive, f) ==
    LET n == Number(SelectSeq(f, IsDigit))
    IN  IF directive = "y" THEN (IF n <= 68 THEN 2000 + n ELSE 1900 + n) ELSE n

IsLeap(y) == (y % 4 = 0 /\ y % 100 # 0) \/ y % 400 = 0

DaysInMonth(y, m) ==
    IF m = 2 THEN (IF IsLeap(y) THEN 29 ELSE 28)
    ELSE IF m \in {4, 6, 9, 11} THEN 30 ELSE 31

\* the datetime constructor accepts the date
ValidDate(y, m, d) == y \in 1..9999 /\ m \in 1..12 /\ d \in 1..DaysInMonth(y, m)

\* a format of three directives with one separator character between them
Format(d1, d2, d3, sep) == [directives |-> <<d1, d2, d3>>, sep |-> sep]

\* formats = ["%m/%d/%Y", "%m/%d/%y", "%Y-%m-%d", "%d-%m-%Y"]
formats == <<Format("m", "d", "Y", "/"), Format("m", "d", "y", "/"),
             Format("Y", "m", "d", "-"), Format("d", "m", "Y", "-")>>

NoDate == [raised |-> TRUE, value |-> <<>>]

\* datetime.strptime(s, fmt): the whole of s must match the format (ValueError on no
\* match and on unconverted data) and the fields must make a date
strptime(s, fmt) ==
    LET seps == {k \in 1..Len(s) : s[k] = fmt.sep}
    IN  IF Cardinality(seps) # 2 THEN NoDate
        ELSE LET a  == CHOOSE k \in seps : \A q \in seps : k <= q
                 b  == CHOOSE k \in seps : \A q \in seps : k >= q
                 f  == <<SubSeq(s, 1, a - 1), SubSeq(s, a + 1, b - 1),
                         SubSeq(s, b + 1, Len(s))>>
                 at(directive) == CHOOSE k \in 1..3 : fmt.directives[k] = directive
                 yd == IF "Y" \in Range(fmt.directives) THEN "Y" ELSE "y"
                 y  == Reads(yd, f[at(yd)])
                 m  == Reads("m", f[at("m")])
                 d  == Reads("d", f[at("d")])
             IN  IF /\ \A k \in 1..3 : Accepts(fmt.directives[k], f[k])
                    /\ ValidDate(y, m, d)
                 THEN [raised |-> FALSE, value |-> <<y, m, d>>]
                 ELSE NoDate

\* mutation of parse_date: a token no format parses is given datetime.min
parse_date_guessing(s) ==
    LET ok == {k \in 1..Len(formats) : ~strptime(s, formats[k]).raised}
    IN  IF ok = {} THEN [raised |-> FALSE, value |-> <<1, 1, 1>>]
        ELSE strptime(s, formats[CHOOSE k \in ok : \A q \in ok : k <= q])

\* _parse_date: the first format that parses the token, else ValueError
parse_date(s) ==
    LET ok == {k \in 1..Len(formats) : ~strptime(s, formats[k]).raised}
    IN  IF ok = {} THEN NoDate
        ELSE strptime(s, formats[CHOOSE k \in ok : \A q \in ok : k <= q])

----------------------------------------------------------------------------
(* _parse_date on its own: every token  a sep b sep c  of the pieces below,     *)
(* two of them written with the digits U+0660..U+0669,                         *)
(* alone or with a character before or after it                                *)

DatePieces == {<<"3">>, <<"0","3">>, <<"1","3">>, <<"2">>, <<"2","9">>, <<"3","0">>, <<"2","0","2","4">>, <<"2","0","2","3">>,
               <<"2","4">>, <<"6","9">>, <<"2","0","2">>, <<"U+0662","U+0660","U+0662","U+0664">>, <<"U+0662","U+0664">>}

DateTokens ==
    {before \o a \o <<sep>> \o b \o <<sep>> \o c \o after :
        a \in DatePieces, b \in DatePieces, c \in DatePieces, sep \in {"/", "-"},
        before \in {<<>>, <<"x">>}, after \in {<<>>, <<"5">>, <<" ">>}}

\* the classifier and the rest of the extractor are not running
ClassifierIdle ==
    /\ cases = <<>>
    /\ progress_callback = FALSE
    /\ i = 0
    /\ results = <<>>
    /\ progress_calls = <<>>
    /\ oracle_calls = <<>>
    /\ outcomes = <<>>
    /\ analysis_results = <<>>
    /\ report = <<>>
    /\ exit_code = <<>>
    /\ response_text = <<>>
    /\ parsed = <<>>

InitDates ==
    /\ date_str \in DateTokens
    /\ parsed_date = <<>>
    /\ pc = "parse_date"
    /\ raw_text = <<>>
    /\ timeline_events = <<>>
    /\ limit = 0
    /\ snippets = <<>>
    /\ timeline_summary = <<>>
    /\ pdf_files = <<>>
    /\ rule_text = <<>>
    /\ rule_result = <<>>
    /\ ClassifierIdle

\* event_date = self._parse_date(date_str)
ParseDate ==
    /\ pc = "parse_date"
    /\ parsed_date' = <<parse_date(date_str)>>
    /\ pc' = "date_parsed"
    /\ UNCHANGED <<date_str, raw_text, timeline_events, limit, snippets, rule_text,
                   rule_result,
                   timeline_summary, pdf_files>>
    /\ UNCHANGED classifier_vars

NextDates == ParseDate

SpecDates == InitDates /\ [][NextDates]_vars

\* the digits of n, two or four of them
TwoDigits(n) == <<Digits[((n \div 10) % 10) + 1], Digits[(n % 10) + 1]>>

FourDigits(n) == TwoDigits(n \div 100) \o TwoDigits(n % 100)

\* the ways the grammars write a month and a day: plain or with a leading zero, and a
\* day also with a leading blank
MonthTexts(m) == IF m < 10 THEN {<<Digits[m + 1]>>, TwoDigits(m)} ELSE {TwoDigits(m)}

DayTexts(d) ==
    IF d < 10 THEN {<<Digits[d + 1]>>, TwoDigits(d), <<" ", Digits[d + 1]>>}
    ELSE {TwoDigits(d)}

\* the tokens that denote the date in the four grammars: month/day/4-digit-year,
\* month/day/2-digit-year (years 1969..2068), year-month-day, day-month-year
Writings(y, m, d) ==
    UNION {
        {mt \o <<"/">> \o dt \o <<"/">> \o FourDigits(y),
         FourDigits(y) \o <<"-">> \o mt \o <<"-">> \o dt,
         dt \o <<"-">> \o mt \o <<"-">> \o FourDigits(y)}
        \cup (IF y \in 1969..2068
              THEN {mt \o <<"/">> \o dt \o <<"/">> \o TwoDigits(y % 100)}
              ELSE {})
        : mt \in MonthTexts(m), dt \in DayTexts(d)}

\* the years a piece can denote, as four digits or as two
PieceYears ==
    {Number(p) : p \in {q \in DatePieces : Len(q) = 4}}
    \cup {Reads("y", p) : p \in {q \in DatePieces : Len(q) = 2}}

\* every token that denotes a calendar date of those years
DateWritings ==
    UNION {Writings(y, m, d) : <<y, m, d>> \in
              {t \in PieceYears \X (1..12) \X (1..31) : ValidDate(t[1], t[2], t[3])}}

\* the token with each decimal digit written as the ASCII digit of its value
AsciiDigits(s) ==
    [k \in 1..Len(s) |-> IF IsDigit(s[k]) THEN Digits[DigitValue(s[k]) + 1] ELSE s[k]]

\* C15: _parse_date returns a date only for a token that is, as a whole, a writing of
\* that calendar date in one of the four grammars (read month-first with "/", and
\* year-first or day-first with "-"), whichever decimal digits it is written with, and
\* raises for every token that is no such writing of any date, a date embedded in a
\* longer token included
C15_ParseDateNeverGuesses ==
    pc = "date_parsed" =>
        LET out == parsed_date[1]
        IN  IF out.raised
            THEN date_str \notin DateWritings
            ELSE /\ ValidDate(out.value[1], out.value[2], out.value[3])
                 /\ AsciiDigits(date_str) \in Writings(out.value[1], out.value[2], out.value[3])

\* a date followed by one more character was refused, though the token without that
\* character is a date
C15_Witness ==
    /\ pc = "date_parsed"
    /\ parsed_date[1].raised
    /\ Len(date_str) >= 2
    /\ ~parse_date(SubSeq(date_str, 1, Len(date_str) - 1)).raised

----------------------------------------------------------------------------
(* PDFExtractor._extract_timeline_events: the two date patterns, re.finditer    *)
(* with DOTALL | MULTILINE, and the sort                                        *)
(*   1  (\d{1,2}/\d{1,2}/\d{2,4})\s*[-|]\s*(.+?)(?=\n\d{1,2}/\d{1,2}/\d{2,4}|\Z) *)
(*   2  (\d{4}-\d{2}-\d{2})\s+(\d{2}:\d{2}[AP]M)?\s*(.+?)(?=\n\d{4}-\d{2}-\d{2}|\Z) *)
(* Positions are 1-based; an end is the position after the last character.      *)

\* content[:500]
ContentLimit == 500

CharAt(text, p) == IF p \in 1..Len(text) THEN text[p] ELSE ""

\* \d* from p: the length of the longest run of digits that starts at p
DigitRun(text, p) ==
    Cardinality({k \in 1..(Len(text) + 1 - p) :
                    \A q \in p..(p + k - 1) : IsDigit(text[q])})

\* \s* from p: the length of the longest run of blanks that starts at p
SpaceRun(text, p) ==
    Cardinality({k \in 1..(Len(text) + 1 - p) :
                    \A q \in p..(p + k - 1) : IsSpace(text[q])})

Smaller(a, b) == IF a <= b THEN a ELSE b

\* \d{1,2}/\d{1,2}/\d{2,4} matched at p: the end of the longest match, 0 when none
SlashDateEnd(text, p) ==
    LET a == DigitRun(text, p)
        q == p + a + 1
    IN  IF ~(a \in {1, 2} /\ CharAt(text, p + a) = "/") THEN 0
        ELSE LET b == DigitRun(text, q)
                 r == q + b + 1
             IN  IF ~(b \in {1, 2} /\ CharAt(text, q + b) = "/") THEN 0
                 ELSE IF DigitRun(text, r) < 2 THEN 0
                 ELSE r + Smaller(DigitRun(text, r), 4)

\* \d{4}-\d{2}-\d{2} matched at p: its end, 0 when none
IsoDateEnd(text, p) ==
    IF /\ \A k \in 0..3 : IsDigit(CharAt(text, p + k))
       /\ CharAt(text, p + 4) = "-"
       /\ \A k \in 5..6 : IsDigit(CharAt(text, p + k))
       /\ CharAt(text, p + 7) = "-"
       /\ \A k \in 8..9 : IsDigit(CharAt(text, p + k))
    THEN p + 10
    ELSE 0

\* the date expression of pattern 1 or 2
DateEnd(pattern, text, p) ==
    IF pattern = 1 THEN SlashDateEnd(text, p) ELSE IsoDateEnd(text, p)

\* \d{2}:\d{2}[AP]M matched at p
IsTime(text, p) ==
    /\ IsDigit(CharAt(text, p)) /\ IsDigit(CharAt(text, p + 1))
    /\ CharAt(text, p + 2) = ":"
    /\ IsDigit(CharAt(text, p + 3)) /\ IsDigit(CharAt(text, p + 4))
    /\ CharAt(text, p + 5) \in {"A", "P"}
    /\ CharAt(text, p + 6) = "M"

\* the lookahead (?=\n<date>|\Z) holds at position e
DateLookahead(pattern, text, e) ==
    \/ e = Len(text) + 1
    \/ CharAt(text, e) = "\n" /\ DateEnd(pattern, text, e + 1) # 0

\* the ends (.+?) can take when it starts at s
BodyEnds(pattern, text, s) ==
    {e \in (s + 1)..(Len(text) + 1) : DateLookahead(pattern, text, e)}

\* \s*(.+?)(?=...) from position j: <<start, end>> of the body, <<>> when no match;
\* \s* takes the longest run that lets the rest match, (.+?) the nearest end
BodyFrom(pattern, text, j) ==
    LET ks == {k \in 0..SpaceRun(text, j) : BodyEnds(pattern, text, j + k) # {}}
    IN  IF ks = {} THEN <<>>
        ELSE LET k  == CHOOSE a \in ks : \A b \in ks : a >= b
                 es == BodyEnds(pattern, text, j + k)
             IN  <<j + k, CHOOSE a \in es : \A b \in es : a <= b>>

NoMatch == [date_str |-> <<>>, body |-> <<>>, end |-> 0]

Matched(text, p, d, span) ==
    [date_str |-> SubSeq(text, p, d - 1),
     body     |-> SubSeq(text, span[1], span[2] - 1),
     end      |-> span[2]]

\* pattern 1 matched at p
SlashMatchAt(text, p) ==
    LET d == SlashDateEnd(text, p)
        q == d + SpaceRun(text, d)
    IN  IF d = 0 \/ CharAt(text, q) \notin {"-", "|"} THEN NoMatch
        ELSE IF BodyFrom(1, text, q + 1) = <<>> THEN NoMatch
        ELSE Matched(text, p, d, BodyFrom(1, text, q + 1))

\* pattern 2 matched at p: \s+ takes the longest run that lets the rest match; the
\* time is taken when it stands there and the rest then matches, else skipped
IsoMatchAt(text, p) ==
    LET d     == IsoDateEnd(text, p)
        timed(k) == IF IsTime(text, d + k) THEN BodyFrom(2, text, d + k + 7) ELSE <<>>
        plain(k) == BodyFrom(2, text, d + k)
        ks    == {k \in 1..SpaceRun(text, d) : timed(k) # <<>> \/ plain(k) # <<>>}
    IN  IF d = 0 \/ ks = {} THEN NoMatch
        ELSE LET k == CHOOSE a \in ks : \A b \in ks : a >= b
             IN  Matched(text, p, d, IF timed(k) # <<>> THEN timed(k) ELSE plain(k))

MatchAt(pattern, text, p) ==
    IF pattern = 1 THEN SlashMatchAt(text, p) ELSE IsoMatchAt(text, p)

RECURSIVE finditer(_, _, _)
\* re.finditer from position pos: the leftmost match, then on from its end. The starts
\* and the match are bound by \in, so each is computed once.
finditer(pattern, text, pos) ==
    CHOOSE found \in
        {IF starts = {} THEN <<>>
         ELSE CHOOSE rest \in
                 {<<m>> \o finditer(pattern, text, m.end) :
                     m \in {MatchAt(pattern, text,
                                    CHOOSE a \in starts : \A b \in starts : a <= b)}} : TRUE
         : starts \in {{p \in pos..Len(text) : MatchAt(pattern, text, p) # NoMatch}}} : TRUE

\* mutation of event_of_match: an event is made only of a match whose date parses
event_of_match_dropping(m) ==
    LET content == strip(m.body)
    IN  IF parse_date(m.date_str).raised THEN <<>>
        ELSE <<[date     |-> AsDatetime(parse_date(m.date_str).value),
                content  |-> SubSeq(content, 1, Smaller(Len(content), ContentLimit)),
                raw_text |-> content]>>

\* mutation of event_of_match: the content is not cut
event_of_match_uncapped(m) ==
    LET content == strip(m.body)
    IN  <<[date     |-> IF parse_date(m.date_str).raised THEN AsToken(m.date_str)
                        ELSE AsDatetime(parse_date(m.date_str).value),
           content  |-> content,
           raw_text |-> content]>>

\* the body of the loop over matches: the events appended for one match. group(2) of
\* pattern 1 and group(3) of pattern 2 always take part in the match, so the outer
\* except branch is never taken.
event_of_match(m) ==
    LET content == strip(m.body)
    IN  <<[date     |-> IF parse_date(m.date_str).raised THEN AsToken(m.date_str)
                        ELSE AsDatetime(parse_date(m.date_str).value),
           content  |-> SubSeq(content, 1, Smaller(Len(content), ContentLimit)),
           raw_text |-> content]>>

RECURSIVE events_of_matches(_)
events_of_matches(ms) ==
    IF ms = <<>> THEN <<>> ELSE event_of_match(Head(ms)) \o events_of_matches(Tail(ms))

\* datetime.min
datetime_min == <<1, 1, 1>>

DateBefore(a, b) ==
    \/ a[1] < b[1]
    \/ a[1] = b[1] /\ a[2] < b[2]
    \/ a[1] = b[1] /\ a[2] = b[2] /\ a[3] < b[3]

\* key=lambda x: x["date"] if isinstance(x["date"], datetime) else datetime.min
sort_key(event) == IF IsDatetime(event.date) THEN event.date.datetime ELSE datetime_min

\* sorted(events, key=sort_key): stable, so an event goes behind the events with a smaller
\* key and behind the earlier events with the same key
sorted(events) ==
    LET place(k) == 1 + Cardinality({j \in 1..Len(events) :
                            \/ DateBefore(sort_key(events[j]), sort_key(events[k]))
                            \/ sort_key(events[j]) = sort_key(events[k]) /\ j < k})
    IN  [n \in 1..Len(events) |-> events[CHOOSE k \in 1..Len(events) : place(k) = n]]

\* the two loops and the sort; the events are bound by \in, so they are computed once
extract_timeline_events(text) ==
    CHOOSE timeline \in
        {sorted(events) :
            events \in {events_of_matches(ms) :
                           ms \in {finditer(1, text, 1) \o finditer(2, text, 1)}}} : TRUE

----------------------------------------------------------------------------
(* _extract_timeline_events on its own: every text of at most MaxLines chunks *)

TextChunks ==
    {<<"1","/","1","/","0","0","0","1"," ","|"," ","b">>,
     <<"\n","1","3","/","1","/","2","0","2","4"," ","-"," ","c">>,
     <<"\n","2","0","2","3","-","0","1","-","0","5"," ","0","9",":","3","0","A","M"," ","d">>,
     <<"\n","n","o","t","e"," ","o","n"," ","5","/","6","/","2","4"," ","-"," ","f">>,
     <<"\n","3","/","4","/","2","0","2"," ","-"," ","g">>}

GeneratedTexts == {Concat(ss) : ss \in SeqsUpTo(TextChunks, MaxLines)}

InitTimeline ==
    /\ raw_text \in GeneratedTexts
    /\ timeline_events = <<>>
    /\ pc = "extract"
    /\ date_str = <<>>
    /\ parsed_date = <<>>
    /\ limit = 0
    /\ snippets = <<>>
    /\ timeline_summary = <<>>
    /\ pdf_files = <<>>
    /\ rule_text = <<>>
    /\ rule_result = <<>>
    /\ ClassifierIdle

\* self._extract_timeline_events() in extract_all
ExtractTimeline ==
    /\ pc = "extract"
    /\ timeline_events' = extract_timeline_events(raw_text)
    /\ pc' = "extracted"
    /\ UNCHANGED <<date_str, parsed_date, raw_text, limit, snippets, rule_text,
                   rule_result,
                   timeline_summary, pdf_files>>
    /\ UNCHANGED classifier_vars

NextTimeline == ExtractTimeline

SpecTimeline == InitTimeline /\ [][NextTimeline]_vars

\* C12: in the extracted timeline every event with an unparsable date stands before
\* every event with a parsed date, and the events with parsed dates stand in ascending
\* order of date
C12_UnparsableFirstThenAscending ==
    pc = "extracted" =>
        \A j, k \in 1..Len(timeline_events) :
            j < k =>
                /\ ~(IsDatetime(timeline_events[j].date) /\ ~IsDatetime(timeline_events[k].date))
                /\ (IsDatetime(timeline_events[j].date) /\ IsDatetime(timeline_events[k].date)) =>
                      ~DateBefore(timeline_events[k].date.datetime,
                                  timeline_events[j].date.datetime)

\* the positions at which a well-formed date-leading line starts: a line that from its
\* first character on has the form of pattern 1 or of pattern 2, body included
DateLeadingLineStarts(text) ==
    {p \in 1..Len(text) :
        /\ p = 1 \/ text[p - 1] = "\n"
        /\ LET ends == {k \in p..Len(text) : text[k] = "\n"}
               stop == IF ends = {} THEN Len(text) + 1
                       ELSE CHOOSE a \in ends : \A b \in ends : a <= b
               line == SubSeq(text, p, stop - 1)
           IN  SlashMatchAt(line, 1) # NoMatch \/ IsoMatchAt(line, 1) # NoMatch}

\* C13: the timeline has as many events as the text has well-formed date-leading
\* lines: none for a text without such a line, N for N of them
C13_OneEventPerDateLeadingLine ==
    pc = "extracted" =>
        Len(timeline_events) = Cardinality(DateLeadingLineStarts(raw_text))

\* the matches of both patterns, in the order the loops visit them
AllMatches(text) == finditer(1, text, 1) \o finditer(2, text, 1)

\* C14: the timeline has one event for each match of each pattern, and a match whose
\* date token _parse_date refuses has an event that carries the token itself as its
\* date and the stripped body as its text
C14_UnparsableDateKept ==
    pc = "extracted" =>
        LET matches == AllMatches(raw_text)
        IN  /\ Len(timeline_events) = Len(matches)
            /\ \A n \in 1..Len(matches) :
                  parse_date(matches[n].date_str).raised =>
                     \E k \in 1..Len(timeline_events) :
                        /\ timeline_events[k].date = AsToken(matches[n].date_str)
                        /\ timeline_events[k].raw_text = strip(matches[n].body)

\* a text was extracted in which a month 13 and a 3-digit year were matched, and both
\* events stand in the timeline with their tokens
C14_Witness ==
    /\ pc = "extracted"
    /\ \E j, k \in 1..Len(timeline_events) :
          /\ timeline_events[j].date = AsToken(<<"1","3","/","1","/","2","0","2","4">>)
          /\ timeline_events[k].date = AsToken(<<"3","/","4","/","2","0","2">>)

----------------------------------------------------------------------------
(* PDFExtractor.get_communication_snippets *)

priority_keywords ==
    <<<<"y","e","l","l">>, <<"s","c","r","e","a","m">>, <<"p","r","o","f","a","n","i","t","y">>, <<"t","h","r","e","a","t">>, <<"l","a","w","s","u","i","t">>, <<"s","t","a","t","e"," ","b","a","r">>,
      <<"f","r","a","u","d">>, <<"i","n","c","o","m","p","e","t","e","n","t">>, <<"c","o","m","p","l","a","i","n","t">>, <<"d","e","m","a","n","d">>, <<"a","n","g","r","y">>, <<"u","p","s","e","t">>,
      <<"d","i","s","s","a","t","i","s","f","i","e","d">>, <<"f","r","u","s","t","r","a","t","e","d">>, <<"f","i","r","e">>, <<"t","e","r","m","i","n","a","t","e">>, <<"r","e","f","u","n","d">>,
      <<"r","e","v","i","e","w">>, <<"g","o","o","g","l","e">>, <<"y","e","l","p">>, <<"h","a","n","g"," ","u","p">>, <<"r","e","f","u","s","e","d"," ","t","o"," ","s","p","e","a","k">>>>

\* keyword in content
Contains(content, keyword) ==
    \E p \in 1..(Len(content) + 1 - Len(keyword)) :
        SubSeq(content, p, p + Len(keyword) - 1) = keyword

\* sum(1 for keyword in priority_keywords if keyword in content), content lower-cased
score(event) ==
    Cardinality({n \in 1..Len(priority_keywords) :
                    Contains(str_lower(event.raw_text), priority_keywords[n])})

\* scored_events.sort(key=lambda x: x[0], reverse=True): stable, so an event goes behind
\* the events with a higher score and behind the earlier events with the same score
scored_events(events) ==
    LET place(k) == 1 + Cardinality({j \in 1..Len(events) :
                            \/ score(events[j]) > score(events[k])
                            \/ score(events[j]) = score(events[k]) /\ j < k})
    IN  [n \in 1..Len(events) |-> events[CHOOSE k \in 1..Len(events) : place(k) = n]]

\* the number of leading elements a slice bound n stands for in a list of length len
SliceIndex(len, n) ==
    IF n >= 0 THEN Smaller(n, len)
    ELSE IF len + n >= 0 THEN len + n ELSE 0

\* s[:n]
SliceTo(s, n) == SubSeq(s, 1, SliceIndex(Len(s), n))

\* s[n:]
SliceFrom(s, n) == SubSeq(s, SliceIndex(Len(s), n) + 1, Len(s))

\* [event for score, event in scored_events[:limit] if score > 0]
top_events(events, n) == SelectSeq(SliceTo(scored_events(events), n), LAMBDA ev : score(ev) > 0)

\* the same function with a fallback that takes the first events of the timeline
get_communication_snippets_oldest(events, n) ==
    IF events = <<>> THEN <<>>
    ELSE LET chosen == IF top_events(events, n) = <<>> THEN SliceTo(events, n)
                       ELSE top_events(events, n)
         IN  [k \in 1..Len(chosen) |-> chosen[k].raw_text]

get_communication_snippets(events, n) ==
    IF events = <<>> THEN <<>>
    ELSE LET chosen == IF top_events(events, n) = <<>> THEN SliceFrom(events, 0 - n)
                       ELSE top_events(events, n)
         IN  [k \in 1..Len(chosen) |-> chosen[k].raw_text]

TimelineEvent(date, text) == [date |-> date, content |-> text, raw_text |-> text]

EventPool ==
    {TimelineEvent(AsDatetime(<<2024, 1, 5>>), <<"c","l","i","e","n","t"," ","u","p","s","e","t">>),
     TimelineEvent(AsDatetime(<<2024, 2, 10>>), <<"C","l","i","e","n","t"," ","A","N","G","R","Y">>),
     TimelineEvent(AsDatetime(<<2024, 3, 1>>), <<"s","e","n","t"," ","i","n","v","o","i","c","e">>),
     TimelineEvent(AsToken(<<"1","3","/","1","/","2","0","2","4">>), <<"c","a","l","l","e","d"," ","o","f","f","i","c","e">>),
     TimelineEvent(AsDatetime(<<2024, 4, 2>>), <<"t","h","r","e","a","t"," ","o","f"," ","l","a","w","s","u","i","t",","," ","r","e","f","u","n","d"," ","d","e","m","a","n","d">>)}

\* the timelines _extract_timeline_events leaves behind: sorted by its key
Timelines == {sorted(events) : events \in SeqsUpTo(EventPool, MaxEvents)}

InitSnippets ==
    /\ timeline_events \in Timelines
    /\ limit \in 0..MaxLimit
    /\ snippets = <<>>
    /\ timeline_summary = <<>>
    /\ pdf_files = <<>>
    /\ pc = "snippets"
    /\ date_str = <<>>
    /\ parsed_date = <<>>
    /\ raw_text = <<>>
    /\ rule_text = <<>>
    /\ rule_result = <<>>
    /\ ClassifierIdle

\* extractor.get_communication_snippets(limit)
GetSnippets ==
    /\ pc = "snippets"
    /\ snippets' = get_communication_snippets(timeline_events, limit)
    /\ pc' = "snippets_returned"
    /\ UNCHANGED <<date_str, parsed_date, raw_text, timeline_events, limit, rule_text,
                   rule_result,
                   timeline_summary, pdf_files>>
    /\ UNCHANGED classifier_vars

NextSnippets == GetSnippets

SpecSnippets == InitSnippets /\ [][NextSnippets]_vars

\* C16: get_communication_snippets returns at most limit snippets, for every timeline
\* and every limit, 0 included
C16_AtMostLimitSnippets ==
    pc = "snippets_returned" => Len(snippets) <= limit

\* C17: when the limit is at least the number of events of the timeline, every event of
\* the timeline is returned, whatever the scores
C17_AllEventsWhenLimitCoversTimeline ==
    (pc = "snippets_returned" /\ limit >= Len(timeline_events)) =>
        /\ Len(snippets) = Len(timeline_events)
        /\ \A k \in 1..Len(timeline_events) : timeline_events[k].raw_text \in Range(snippets)

\* C18: of two events with the same score above zero the one with the later date is
\* ranked first, so the earlier one is among the snippets only when the later one is
C18_TiesBrokenByRecency ==
    pc = "snippets_returned" =>
        \A j, k \in 1..Len(timeline_events) :
            LET early == timeline_events[j]
                late  == timeline_events[k]
            IN  (/\ IsDatetime(early.date) /\ IsDatetime(late.date)
                 /\ DateBefore(early.date.datetime, late.date.datetime)
                 /\ score(early) = score(late)
                 /\ score(early) > 0
                 /\ early.raw_text \in Range(snippets))
                => late.raw_text \in Range(snippets)

\* the last events of a timeline, at most n of them
MostRecent(events, n) == SubSeq(events, Len(events) - Smaller(n, Len(events)) + 1, Len(events))

\* C19: for a non-empty timeline and a limit of at least 1 the snippets are not empty;
\* when no event scores above zero they are the texts of the limit most recent events,
\* none of the events left out being later than one taken; and every snippet is the text
\* of an event of the timeline
C19_FallbackMostRecentNothingFabricated ==
    (pc = "snippets_returned" /\ timeline_events # <<>> /\ limit >= 1) =>
        /\ snippets # <<>>
        /\ (\A k \in 1..Len(timeline_events) : score(timeline_events[k]) = 0) =>
              LET recent == MostRecent(timeline_events, limit)
                  first  == Len(timeline_events) - Len(recent) + 1
              IN  /\ snippets = [k \in 1..Len(recent) |-> recent[k].raw_text]
                  /\ \A j \in 1..(first - 1), k \in first..Len(timeline_events) :
                        ~DateBefore(sort_key(timeline_events[k]), sort_key(timeline_events[j]))
        /\ \A n \in 1..Len(snippets) :
              \E k \in 1..Len(timeline_events) : snippets[n] = timeline_events[k].raw_text

\* the fallback acted on a timeline longer than the limit: no event scores above zero,
\* the events differ, and the snippets are fewer than the events
C19_Witness ==
    /\ pc = "snippets_returned"
    /\ limit >= 1
    /\ Len(timeline_events) > limit
    /\ \A k \in 1..Len(timeline_events) : score(timeline_events[k]) = 0
    /\ timeline_events[1] # timeline_events[Len(timeline_events)]
    /\ Len(snippets) = limit

----------------------------------------------------------------------------
(* SOPRuleEngine: one call of one of the two checks *)

RuleChunks ==
    {<<"I"," ","w","i","l","l"," ","s","u","e"," ","y","o","u">>,
     <<" ","a","n","d"," ","r","e","p","o","r","t"," ","y","o","u">>,
     <<" ","t","o"," ","t","h","e"," ","S","t","a","t","e"," ","B","a","r">>,
     <<"c","a","n"," ","y","o","u"," ","a","l","s","o">>,
     <<" ","h","e","l","p">>,
     <<"!">>}

RuleTexts == {Concat(ss) : ss \in SeqsUpTo(RuleChunks, MaxPhrases)}

InitRules ==
    /\ rule_text \in RuleTexts
    /\ rule_result = <<>>
    /\ pc \in {"e_special_check", "special_check"}
    /\ date_str = <<>>
    /\ parsed_date = <<>>
    /\ raw_text = <<>>
    /\ timeline_events = <<>>
    /\ limit = 0
    /\ snippets = <<>>
    /\ timeline_summary = <<>>
    /\ pdf_files = <<>>
    /\ ClassifierIdle

\* SOPRuleEngine.has_e_special_indicators(text)
CheckESpecial ==
    /\ pc = "e_special_check"
    /\ rule_result' = <<has_e_special_indicators(rule_text)>>
    /\ pc' = "e_special_checked"
    /\ UNCHANGED <<date_str, parsed_date, raw_text, timeline_events, limit, snippets,
                   rule_text,
                   timeline_summary, pdf_files>>
    /\ UNCHANGED classifier_vars

\* SOPRuleEngine.has_special_indicators(text)
CheckSpecial ==
    /\ pc = "special_check"
    /\ rule_result' = <<has_special_indicators(rule_text)>>
    /\ pc' = "special_checked"
    /\ UNCHANGED <<date_str, parsed_date, raw_text, timeline_events, limit, snippets,
                   rule_text,
                   timeline_summary, pdf_files>>
    /\ UNCHANGED classifier_vars

NextRules == CheckESpecial \/ CheckSpecial

SpecRules == InitRules /\ [][NextRules]_vars

\* what a check is to return for a table of indicators: whether any tag matched, and the
\* tags whose phrase stands in the text as a whole word or phrase, letter case ignored
Tags(indicators, text) ==
    [raised |-> FALSE,
     value  |-> <<Len(matched_categories(indicators, text)) > 0,
                  matched_categories(indicators, text)>>]

\* C20: each check of the rule engine returns the tags whose phrase occurs in the text:
\* a text with "sue" and "report you" or "State Bar" gets the lawsuit and the bar
\* complaint tag from the Excessively-Special check, and a text of "can you also" alone
\* gets scope_expansion from the Special check and nothing from the other
C20_RuleEngineReturnsMatchedTags ==
    /\ pc = "e_special_checked" =>
          /\ rule_result = <<Tags(e_special_indicators, rule_text)>>
          /\ (Contains(rule_text, <<"s","u","e">>) /\ Contains(rule_text, <<"r","e","p","o","r","t"," ","y","o","u">>)) =>
                /\ ~rule_result[1].raised
                /\ {"threats_lawsuit", "threats_bar"} \subseteq Range(rule_result[1].value[2])
          /\ rule_text = <<"c","a","n"," ","y","o","u"," ","a","l","s","o">> =>
                rule_result = <<[raised |-> FALSE, value |-> <<FALSE, <<>> >>]>>
    /\ pc = "special_checked" =>
          /\ rule_result = <<Tags(special_indicators, rule_text)>>
          /\ rule_text = <<"c","a","n"," ","y","o","u"," ","a","l","s","o">> =>
                rule_result = <<[raised |-> FALSE, value |-> <<TRUE, <<"scope_expansion">> >>]>>

----------------------------------------------------------------------------
(* BehaviorClassifier._build_analysis_prompt: the timeline summary *)

\* [:15]
SummaryLimit == 15

\* [:300]
SummaryTextLimit == 300

\* str() of an event date inside the f-string: a datetime prints as
\* YYYY-MM-DD 00:00:00 (_parse_date never sets a time), a token as it is
str_date(date) ==
    IF IsDatetime(date)
    THEN FourDigits(date.datetime[1]) \o <<"-">> \o TwoDigits(date.datetime[2]) \o <<"-">>
            \o TwoDigits(date.datetime[3]) \o <<" ","0","0",":","0","0",":","0","0">>
    ELSE date.str

\* f"Date: {event['date']}\n{event['raw_text'][:300]}"
summary_entry(event) ==
    <<"D","a","t","e",":"," ">> \o str_date(event.date) \o <<"\n">> \o SliceTo(event.raw_text, SummaryTextLimit)

RECURSIVE join(_, _)
\* sep.join(parts)
join(sep, parts) ==
    IF parts = <<>> THEN <<>>
    ELSE IF Len(parts) = 1 THEN parts[1]
    ELSE parts[1] \o sep \o join(sep, Tail(parts))

\* case_data.get("timeline_events", [])
get_timeline_events(case_data) ==
    IF "timeline_events" \in DOMAIN case_data THEN case_data.timeline_events ELSE <<>>

\* timeline_summary of _build_analysis_prompt
build_timeline_summary(case_data) ==
    LET events == SliceTo(get_timeline_events(case_data), SummaryLimit)
    IN  join(<<"\n","\n">>, [k \in 1..Len(events) |-> summary_entry(events[k])])

\* a timeline of len events on consecutive days, the one at position salient (if any)
\* holding a priority keyword
DailyTimeline(len, salient) ==
    [k \in 1..len |->
        TimelineEvent(AsDatetime(<<2024, 1, k>>),
                      IF k = salient THEN <<"c","l","i","e","n","t"," ","m","a","d","e"," ","a"," ","t","h","r","e","a","t">> ELSE <<"s","e","n","t"," ","i","n","v","o","i","c","e">>)]

PromptCases ==
    {[case_name |-> "Robert Williams", pdf_filename |-> "williams.pdf",
      timeline_events |-> DailyTimeline(len, salient)] :
        len \in 0..MaxTimeline, salient \in 0..MaxTimeline}

InitPrompt ==
    /\ cases \in {<<case>> : case \in PromptCases}
    /\ timeline_summary = <<>>
    /\ pdf_files = <<>>
    /\ pc = "build_prompt"
    /\ progress_callback = FALSE
    /\ i = 1
    /\ results = <<>>
    /\ progress_calls = <<>>
    /\ oracle_calls = <<>>
    /\ outcomes = <<>>
    /\ analysis_results = <<>>
    /\ report = <<>>
    /\ exit_code = <<>>
    /\ response_text = <<>>
    /\ parsed = <<>>
    /\ date_str = <<>>
    /\ parsed_date = <<>>
    /\ raw_text = <<>>
    /\ timeline_events = <<>>
    /\ limit = 0
    /\ snippets = <<>>
    /\ rule_text = <<>>
    /\ rule_result = <<>>

\* prompt = self._build_analysis_prompt(case_data) in analyze_client
BuildPrompt ==
    /\ pc = "build_prompt"
    /\ timeline_summary' = build_timeline_summary(cases[i])
    /\ pc' = "prompt_built"
    /\ UNCHANGED <<date_str, parsed_date, raw_text, timeline_events, limit, snippets,
                   rule_text, rule_result, pdf_files>>
    /\ UNCHANGED classifier_vars

NextPrompt == BuildPrompt

SpecPrompt == InitPrompt /\ [][NextPrompt]_vars

\* the positions of the case's events that stand in the summary
InSummary == {k \in 1..Len(cases[1].timeline_events) :
                 Contains(timeline_summary, summary_entry(cases[1].timeline_events[k]))}

\* C22: the summary holds at most SummaryLimit events of the case's timeline, and no
\* event left out of it has a higher salience score than an event in it
C22_SummaryHoldsTopScoredEvents ==
    pc = "prompt_built" =>
        /\ Cardinality(InSummary) <= SummaryLimit
        /\ \A j \in InSummary, k \in 1..Len(cases[1].timeline_events) :
              k \notin InSummary =>
                 score(cases[1].timeline_events[k]) <= score(cases[1].timeline_events[j])

----------------------------------------------------------------------------
(* extract_from_folder: the loop over the PDF files of the folder *)

\* a PDF file of the folder; readable says whether extract_all gets through it
PdfFile(case, readable) == [name |-> case.pdf_filename, data |-> case, readable |-> readable]

\* folder.glob("*.pdf") of the folders explored: any files of CaseSet, in any order, each
\* readable or not
Folders ==
    {files \in SeqsUpTo({PdfFile(case, readable) : case \in CaseSet, readable \in BOOLEAN},
                        Cardinality(CaseSet)) :
        \A a, b \in 1..Len(files) : a # b => files[a].name # files[b].name}

\* main before step 1: the files of the folder, and progress_callback, which says whether
\* main will hand progress_indicator to batch_analyze (not args.verbose)
InitFolder ==
    /\ pdf_files \in Folders
    /\ pc = "for pdf_file"
    /\ cases = <<>>
    /\ i = 0
    /\ results = <<>>
    /\ progress_callback \in BOOLEAN
    /\ progress_calls = <<>>
    /\ oracle_calls = <<>>
    /\ outcomes = <<>>
    /\ analysis_results = <<>>
    /\ report = <<>>
    /\ exit_code = <<>>
    /\ response_text = <<>>
    /\ parsed = <<>>
    /\ date_str = <<>>
    /\ parsed_date = <<>>
    /\ raw_text = <<>>
    /\ timeline_events = <<>>
    /\ limit = 0
    /\ snippets = <<>>
    /\ timeline_summary = <<>>
    /\ rule_text = <<>>
    /\ rule_result = <<>>

\* if not pdf_files: raise ValueError; main's except Exception then exits with 1
NoPdfFiles ==
    /\ pc = "for pdf_file"
    /\ pdf_files = <<>>
    /\ pc' = "exit"
    /\ exit_code' = <<1>>
    /\ UNCHANGED <<cases, progress_callback, i, results, progress_calls, oracle_calls,
                   outcomes, analysis_results, report, response_text, parsed>>
    /\ UNCHANGED extractor_vars

\* one turn of the loop for a file extract_all gets through: its data is appended
ExtractFile ==
    /\ pc = "for pdf_file"
    /\ i < Len(pdf_files)
    /\ pdf_files[i + 1].readable
    /\ i' = i + 1
    /\ results' = Append(results, pdf_files[i + 1].data)
    /\ UNCHANGED <<pc, cases, progress_callback, progress_calls, oracle_calls, outcomes,
                   analysis_results, report, exit_code, response_text, parsed>>
    /\ UNCHANGED extractor_vars

\* one turn of the loop for a file on which extract_all raises: the except branch
\* prints and continues
ExtractFileRaises ==
    /\ pc = "for pdf_file"
    /\ i < Len(pdf_files)
    /\ ~pdf_files[i + 1].readable
    /\ i' = i + 1
    /\ UNCHANGED <<pc, cases, results, progress_callback, progress_calls, oracle_calls,
                   outcomes, analysis_results, report, exit_code, response_text, parsed>>
    /\ UNCHANGED extractor_vars

\* return results, which main binds to extracted_data; main goes on to construct the
\* classifier
ReturnExtracted ==
    /\ pc = "for pdf_file"
    /\ pdf_files # <<>>
    /\ i = Len(pdf_files)
    /\ cases' = results
    /\ pc' = "BehaviorClassifier"
    /\ i' = 0
    /\ results' = <<>>
    /\ UNCHANGED <<progress_callback, progress_calls, oracle_calls, outcomes,
                   analysis_results, report, exit_code, response_text, parsed>>
    /\ UNCHANGED extractor_vars

\* BehaviorClassifier(api_key=args.api_key) with an API key and a readable file at
\* sop_path: __init__ returns, and main calls batch_analyze on extracted_data, with
\* progress_indicator unless --verbose was given; batch_analyze stands before its loop
BehaviorClassifier ==
    /\ pc = "BehaviorClassifier"
    /\ pc' = "for"
    /\ UNCHANGED <<cases, progress_callback, i, results, progress_calls, oracle_calls,
                   outcomes, analysis_results, report, exit_code, response_text, parsed>>
    /\ UNCHANGED extractor_vars

\* BehaviorClassifier(api_key=args.api_key) without an API key (ValueError) or when the
\* file at sop_path cannot be opened (FileNotFoundError): main's except Exception exits
\* with 1 and batch_analyze is never called
BehaviorClassifierRaises ==
    /\ pc = "BehaviorClassifier"
    /\ pc' = "error-exit"
    /\ exit_code' = <<1>>
    /\ UNCHANGED <<cases, progress_callback, i, results, progress_calls, oracle_calls,
                   outcomes, analysis_results, report, response_text, parsed>>
    /\ UNCHANGED extractor_vars

NextFolder ==
    \/ NoPdfFiles \/ ExtractFile \/ ExtractFileRaises \/ ReturnExtracted
    \/ BehaviorClassifier \/ BehaviorClassifierRaises \/ Interrupt

SpecFolder == InitFolder /\ [][NextFolder]_vars

\* C23: what extract_from_folder returns has exactly one case record for each PDF file
\* of the folder
C23_OneRecordPerPdfFile ==
    pc \in {"BehaviorClassifier", "for"} =>
        /\ Len(cases) = Len(pdf_files)
        /\ \A k \in 1..Len(pdf_files) :
              \E n \in 1..Len(cases) : cases[n].pdf_filename = pdf_files[k].name

----------------------------------------------------------------------------
(* _extract_timeline_events: the loop body on one match with a long body *)

\* a body of len letters
Letters(len) == [k \in 1..len |-> LowerLetters[((k - 1) % Len(LowerLetters)) + 1]]

\* bodies (.+?) can capture: short ones and ones around the cap, bare or with blanks
\* behind
Bodies ==
    UNION {{Letters(len), Letters(len) \o <<"\n">>, Letters(len) \o <<" ","\n">>} :
              len \in (1..3) \cup ((ContentLimit - 10)..MaxBody)}

InitEvent ==
    /\ date_str \in {<<"3","/","4","/","2","0","2","4">>, <<"1","3","/","1","/","2","0","2","4">>}
    /\ raw_text \in Bodies
    /\ timeline_events = <<>>
    /\ pc = "match"
    /\ parsed_date = <<>>
    /\ limit = 0
    /\ snippets = <<>>
    /\ timeline_summary = <<>>
    /\ pdf_files = <<>>
    /\ rule_text = <<>>
    /\ rule_result = <<>>
    /\ ClassifierIdle

\* the loop body for the match of pattern 1 on a line made of date_str and the body
\* raw_text, and the sort
MakeEvent ==
    /\ pc = "match"
    /\ timeline_events' =
          sorted(events_of_matches(finditer(1, date_str \o <<" ","-"," ">> \o raw_text, 1)))
    /\ pc' = "extracted"
    /\ UNCHANGED <<date_str, parsed_date, raw_text, limit, snippets, rule_text, rule_result,
                   timeline_summary, pdf_files>>
    /\ UNCHANGED classifier_vars

NextEvent == MakeEvent

SpecEvent == InitEvent /\ [][NextEvent]_vars

\* C24: the content of every timeline event has at most ContentLimit characters and is
\* the beginning of the event's raw_text, and raw_text is the whole body of the match
\* (surrounding blanks apart), however long
C24_ContentCappedRawTextKept ==
    pc = "extracted" =>
        \A k \in 1..Len(timeline_events) :
            LET event == timeline_events[k]
            IN  /\ Len(event.content) <= ContentLimit
                /\ Len(event.content) <= Len(event.raw_text)
                /\ event.content = SubSeq(event.raw_text, 1, Len(event.content))
                /\ Len(event.raw_text) >= ContentLimit => Len(event.content) = ContentLimit
                /\ \E trail \in 0..2 :
                      event.raw_text = SubSeq(raw_text, 1, Len(raw_text) - trail)

\* an event was made of a body longer than the cap: its content is cut, its raw_text
\* is not
C24_Witness ==
    /\ pc = "extracted"
    /\ Len(timeline_events) = 1
    /\ Len(raw_text) > Len(timeline_events[1].raw_text)
    /\ Len(timeline_events[1].raw_text) > ContentLimit
    /\ Len(timeline_events[1].content) = ContentLimit

----------------------------------------------------------------------------
(* _parse_date: 2-digit and 4-digit years *)

\* the position of the last "/" of a token, 0 when it has none
LastSlash(s) ==
    IF \A k \in 1..Len(s) : s[k] # "/" THEN 0
    ELSE CHOOSE k \in 1..Len(s) : s[k] = "/" /\ \A q \in (k + 1)..Len(s) : s[q] # "/"

\* the token is a date of pattern 1 whose year is written with two digits
TwoDigitYear(s) ==
    /\ SlashDateEnd(s, 1) = Len(s) + 1
    /\ Len(s) - LastSlash(s) = 2

\* the same token with the year written 20yy
WithCentury(s) == SubSeq(s, 1, LastSlash(s)) \o <<"2","0">> \o SubSeq(s, LastSlash(s) + 1, Len(s))

\* C25: a token m/d/yy with yy in 00..68, the years %y places in the 2000s, gets from
\* _parse_date what m/d/20yy gets, the same date or the same refusal; and no token with
\* a 2-digit year is given a year below 100
C25_TwoAndFourDigitYearsAgree ==
    (pc = "date_parsed" /\ TwoDigitYear(date_str)) =>
        /\ Number(SubSeq(date_str, LastSlash(date_str) + 1, Len(date_str))) <= 68
              => parsed_date[1] = parse_date(WithCentury(date_str))
        /\ ~parsed_date[1].raised => parsed_date[1].value[1] >= 100

\* 3/2/24 was parsed, to the date 3/2/2024 is parsed to
C25_Witness ==
    /\ pc = "date_parsed"
    /\ date_str = <<"3","/","2","/","2","4">>
    /\ parsed_date = <<[raised |-> FALSE, value |-> <<2024, 3, 2>>]>>
    /\ parse_date(<<"3","/","2","/","2","0","2","4">>) = parsed_date[1]

----------------------------------------------------------------------------
(* batch_analyze: the order of the oracle calls *)

\* C26: at any moment at most one oracle call is without its outcome; the calls made so
\* far are those for cases 1, 2, ... in this order, one each; a call is made only when
\* the results of all cases before it are appended; and when batch_analyze has returned
\* there is one call for every case
C26_OneCallAtATimeInOrder ==
    /\ Len(oracle_calls) - Len(outcomes) \in {0, 1}
    /\ oracle_calls = [k \in 1..Len(oracle_calls) |-> k]
    /\ Len(results) = Len(outcomes)
    /\ Len(oracle_calls) > Len(results) => pc \in {"await", "interrupted"}
    /\ pc \in {"returned", "done"} => Len(oracle_calls) = Len(cases)

\* a batch of two cases ran to its end although the first call raised: two calls, one
\* for each case
C26_Witness ==
    /\ pc = "done"
    /\ Len(cases) = 2
    /\ outcomes[1].kind = "raise"
    /\ outcomes[2].kind = "reply"
    /\ oracle_calls = <<1, 2>>

-----------------------------------------------------------------------------
(* extract_field: a label whose value is empty *)

\* the first occurrence of the label is followed directly by a newline and the line
\* of another field
EmptyValued(text, label) ==
    /\ LabelOccurs(text, label)
    /\ LET at == {p \in 1..Len(text) : LabelAt(text, label, p)}
           p  == CHOOSE a \in at : \A b \in at : a <= b
           j  == p + Len(label) + 1
       IN  /\ j < Len(text)
           /\ text[j] = "\n"
           /\ \E g \in 1..Len(Fields) : LabelAt(text, Fields[g].label, j + 1)

\* C27: a field whose label stands in the reply with an empty value, directly followed
\* by the line of the next field, is parsed to a value that holds no field label and
\* so no value of another field
C27_EmptyValueTakesNothingFromNextField ==
    pc = "parsed" =>
        \A f \in 1..Len(Fields) :
            EmptyValued(response_text, Fields[f].label) =>
                \A g \in 1..Len(Fields) :
                    ~LabelOccurs(parsed[1][Fields[f].key], Fields[g].label)

====
